---- MODULE Spec2Model ----
(***************************************************************************)
(* Role / permission authorization of the education backend: the Prisma    *)
(* tables the authorization code reads and writes, the services            *)
(* (roleService, permissionService, userService), the guards               *)
(* (checkRole, checkAnyRole, checkPermission, checkAnyPermission) and the   *)
(* role / permission management handlers, as concurrently served requests.  *)
(***************************************************************************)
EXTENDS Integers, Sequences, FiniteSets, Bags, TLC

VARIABLES user, role, permission, userRole, rolePermission, req

vars == <<user, role, permission, userRole, rolePermission, req>>

store == <<user, role, permission, userRole, rolePermission>>

\* the ids of the rows of user; a row carries its id and its active flag
UserIds == { u.id : u \in user }

(***************************************************************************)
(* Bounds                                                                  *)
(***************************************************************************)
\* requests in flight at the same time
Slots == {"s1", "s2"}

\* copies of one row a table is allowed to reach before the model stops
\* adding more (only a store without its unique constraint gets there)
MaxCopies == 2

\* value of req.user?.userId when the token payload carries no userId
NoUser == "-"

\* null of the ORM (findUnique / findFirst without a match)
Null == [null |-> TRUE]

(***************************************************************************)
(* Seed data (prisma/seed.ts)                                              *)
(***************************************************************************)
SeedPermissions ==
  << "USER_READ", "USER_CREATE", "USER_UPDATE", "USER_DELETE",
     "ROLE_READ", "ROLE_MANAGE",
     "COURSE_READ", "COURSE_CREATE", "COURSE_UPDATE", "COURSE_DELETE",
     "STUDENT_READ", "STUDENT_MANAGE", "TEACHER_DASHBOARD_ACCESS",
     "GRADE_READ", "GRADE_MANAGE" >>

\* the names of SYSTEM_PERMISSIONS (permission.types.ts); the seed creates
\* only those of SeedPermissions
SYSTEM_PERMISSIONS ==
  { SeedPermissions[k] : k \in DOMAIN SeedPermissions }
    \cup { "GRADE_APPROVE", "TRANSCRIPT_ACCESS",
           "ATTENDANCE_READ", "ATTENDANCE_MANAGE", "ATTENDANCE_REPORT" }

SeedRoles == << "admin", "teacher", "student" >>

teacherPermissions ==
  { "USER_READ", "COURSE_READ", "COURSE_CREATE", "COURSE_UPDATE",
    "STUDENT_READ", "STUDENT_MANAGE" }

studentPermissions == { "COURSE_READ" }

\* ids of the three users the seed creates: admin@edu.com, teacher@edu.com,
\* student@edu.com
adminUser == "uA"
teacherUser == "uT"
studentUser == "uS"

SeedPermissionTable ==
  { [id |-> k, name |-> SeedPermissions[k]] : k \in DOMAIN SeedPermissions }

SeedRoleTable ==
  { [id |-> <<"role", k>>, name |-> SeedRoles[k]] : k \in DOMAIN SeedRoles }

RoleIdOf(name) == (CHOOSE r \in SeedRoleTable : r.name = name).id

PermissionIdOf(name) == (CHOOSE p \in SeedPermissionTable : p.name = name).id

SeedRolePermission ==
  SetToBag(
    { [roleId |-> RoleIdOf("admin"), permissionId |-> p.id] :
        p \in SeedPermissionTable }
    \cup { [roleId |-> RoleIdOf("teacher"), permissionId |-> PermissionIdOf(n)] :
             n \in teacherPermissions }
    \cup { [roleId |-> RoleIdOf("student"), permissionId |-> PermissionIdOf(n)] :
             n \in studentPermissions })

SeedUserRole ==
  SetToBag({ [userId |-> adminUser, roleId |-> RoleIdOf("admin")],
             [userId |-> teacherUser, roleId |-> RoleIdOf("teacher")],
             [userId |-> studentUser, roleId |-> RoleIdOf("student")] })

(***************************************************************************)
(* Prisma queries on the tables                                            *)
(***************************************************************************)
\* the rows of a bag
Rows(table) == BagToSet(table)

\* prisma.role.findUnique({ where: { name } })
getRoleByName(name) ==
  IF \E r \in role : r.name = name
    THEN CHOOSE r \in role : r.name = name
    ELSE Null

\* prisma.permission.findUnique({ where: { name } })
getPermissionByName(name) ==
  IF \E p \in permission : p.name = name
    THEN CHOOSE p \in permission : p.name = name
    ELSE Null

\* where: { userId, role: { name: { in: roleNames } } } on userRole
UserRoleWhere(userId, roleNames) ==
  { ur \in Rows(userRole) :
      /\ ur.userId = userId
      /\ \E r \in role : r.id = ur.roleId /\ r.name \in roleNames }

\* where: { role: { users: { some: { userId } } },
\*          permission: { name: { in: permissionNames } } } on rolePermission
RolePermissionWhere(userId, permissionNames) ==
  { rp \in Rows(rolePermission) :
      /\ \E ur \in Rows(userRole) : ur.roleId = rp.roleId /\ ur.userId = userId
      /\ \E p \in permission : p.id = rp.permissionId /\ p.name \in permissionNames }

\* the names in a list of names
NamesOf(names) == { names[k] : k \in DOMAIN names }

(***************************************************************************)
(* roleService / permissionService membership queries                      *)
(***************************************************************************)
\* userHasRole that holds for a user with that role and no other
userHasRoleExclusive(userId, roleName) ==
  /\ UserRoleWhere(userId, {roleName}) # {}
  /\ \A ur \in Rows(userRole) :
       ur.userId = userId => ur \in UserRoleWhere(userId, {roleName})

userHasRole(userId, roleName) ==
  UserRoleWhere(userId, {roleName}) # {}

\* userHasAnyRole with the length of the result compared by >= 0
userHasAnyRoleAtLeastZero(userId, roleNames) ==
  Cardinality(UserRoleWhere(userId, NamesOf(roleNames))) >= 0

userHasAnyRole(userId, roleNames) ==
  Cardinality(UserRoleWhere(userId, NamesOf(roleNames))) > 0

\* userHasPermission without the users: { some: { userId } } filter
userHasPermissionOfAnyone(userId, permissionName) ==
  \E rp \in Rows(rolePermission) :
    \E p \in permission : p.id = rp.permissionId /\ p.name = permissionName

userHasPermission(userId, permissionName) ==
  RolePermissionWhere(userId, {permissionName}) # {}

\* userHasAnyPermission that looks for the first name of the list only
userHasAnyPermissionFirst(userId, permissionNames) ==
  Cardinality(RolePermissionWhere(userId,
    { permissionNames[k] : k \in DOMAIN permissionNames \cap {1} })) > 0

userHasAnyPermission(userId, permissionNames) ==
  Cardinality(RolePermissionWhere(userId, NamesOf(permissionNames))) > 0

\* sum of the copies of the rows of a bag that fall in a set of rows
RECURSIVE CopiesOf(_, _)
CopiesOf(table, rows) ==
  IF rows = {} THEN 0
  ELSE LET row == CHOOSE x \in rows : TRUE
       IN CopiesIn(row, table) + CopiesOf(table, rows \ {row})

\* findMany({ where: { role: { users: { some: { userId } } } } }): the rows
\* the query returns, each as often as the table holds it
RolePermissionMany(userId) ==
  LET rows == RolePermissionWhere(userId, { p.name : p \in permission })
  IN [rp \in rows |-> CopiesIn(rp, rolePermission)]

\* the query without distinct: every row of the result
DistinctPermissionIdDropped(result) == result

\* distinct: ['permissionId']: one row for each permissionId of the result
DistinctPermissionId(result) ==
  SetToBag({ CHOOSE rp \in DOMAIN result : rp.permissionId = pid :
               pid \in { rp.permissionId : rp \in DOMAIN result } })

\* rolePermissions.map(rp => rp.permission): the list of permissions, as the
\* bag of its elements
MapPermission(result) ==
  LET found == { p \in permission : \E rp \in DOMAIN result : rp.permissionId = p.id }
  IN [p \in found |->
        CopiesOf(result, { rp \in DOMAIN result : rp.permissionId = p.id })]

getUserPermissions(userId) ==
  MapPermission(DistinctPermissionId(RolePermissionMany(userId)))

(***************************************************************************)
(* Requests                                                                *)
(***************************************************************************)
\* payloads a verified token can decode to (userId), "uX" being an id that no
\* user row carries, and an invalid token
Principals == { NoUser, adminUser, teacherUser, studentUser, "uX" }

InvalidToken == "invalid"

Tokens == Principals \cup { InvalidToken }

\* a token signed for the student when its email was another one
FormerEmailToken == "student, former email"

\* jwtUtils.verify: the payload { userId, email } of a token that verifies
verify(token) ==
  IF token = FormerEmailToken
    THEN [userId |-> studentUser, email |-> "former"]
    ELSE [userId |-> token, email |-> "current"]

Protected(kind, names) ==
  [guard |-> [kind |-> kind, names |-> names], handler |-> "protected"]

\* guards in front of handlers that leave the authorization tables alone
ProtectedRoutes ==
  { Protected("checkRole", <<"admin">>),
    Protected("checkAnyRole", <<>>),
    Protected("checkAnyRole", <<"admin", "teacher">>),
    Protected("checkPermission", <<"COURSE_READ">>),
    Protected("checkPermission", <<"STUDENT_MANAGE">>),
    Protected("checkPermission", <<"ATTENDANCE_MANAGE">>),
    Protected("checkAnyPermission", <<>>),
    Protected("checkAnyPermission", <<"COURSE_DELETE", "COURSE_UPDATE">>) }

\* req.params and req.body of a request that carries none
NoParams ==
  [userId |-> "", roleName |-> "", roleId |-> <<>>, permissionName |-> "",
   body |-> ""]

\* a slot with no request: pc is the position of the request in its chain of
\* middleware and handler, user is req.user?.userId and email req.user?.email,
\* queries counts the store
\* queries its guard issued and q keeps what the guard's query answered, found
\* is the role or permission the handler looked up by name, count the number
\* of rows its write touched (-1 before the write), data the list in the body
\* of its response
Idle ==
  [pc |-> "idle", user |-> NoUser, email |-> "",
   guard |-> [kind |-> "none", names |-> <<>>], handler |-> "none",
   status |-> 0, error |-> <<>>, sent |-> 0, nexts |-> 0, queries |-> 0,
   q |-> "none", params |-> NoParams, found |-> Null, count |-> -1,
   data |-> EmptyBag]

\* res.status(status).json({ error })
Respond(r, status, error) ==
  [r EXCEPT !.pc = "done", !.status = status, !.error = error, !.sent = @ + 1]

\* a guard that calls next() a second time
CallNextTwice(r) == [r EXCEPT !.pc = "handler", !.nexts = @ + 2]

\* next() of a guard
CallNext(r) == [r EXCEPT !.pc = "handler", !.nexts = @ + 1]

\* authenticateToken on an arriving request (router.use: it runs before the
\* route is chosen), then the route the request goes to
authenticateToken(i, tokens, routes) ==
  /\ req[i].pc \in {"idle", "done"}
  /\ \/ /\ InvalidToken \in tokens
        /\ req' = [req EXCEPT ![i] =
             Respond(Idle, 401, <<"Authentication", "failed">>)]
     \/ \E token \in tokens \ {InvalidToken}, route \in routes :
          req' = [req EXCEPT ![i] =
            [Idle EXCEPT !.pc = "guard", !.user = verify(token).userId,
                         !.email = verify(token).email,
                         !.guard = route.guard, !.handler = route.handler]]
  /\ UNCHANGED store

(***************************************************************************)
(* middleware/permission.ts, middleware/role.ts                            *)
(***************************************************************************)
\* list.join(', ')
Join(names) == names

\* a guard that issues its query before it looks at the principal
GuardEntryQueryFirst(r) == [r EXCEPT !.pc = "query", !.queries = @ + 1]

\* the part of a guard before its await: the 401, or the store query issued
GuardEntry(r) ==
  IF r.user = NoUser
    THEN Respond(r, 401, <<"Authentication", "required">>)
    ELSE [r EXCEPT !.pc = "query", !.queries = @ + 1]

\* a guard whose catch answers like a denial
GuardResolveConflated(r, threw, has, denied, failure) ==
  IF threw
    THEN Respond([r EXCEPT !.q = "throw"], 403, denied)
    ELSE IF ~has
      THEN Respond([r EXCEPT !.q = "false"], 403, denied)
      ELSE CallNext([r EXCEPT !.q = "true"])

\* the part of a guard after its await: the query threw (catch), or it
\* answered has
GuardResolve(r, threw, has, denied, failure) ==
  IF threw
    THEN Respond([r EXCEPT !.q = "throw"], 500, failure)
    ELSE IF ~has
      THEN Respond([r EXCEPT !.q = "false"], 403, denied)
      ELSE CallNext([r EXCEPT !.q = "true"])

\* checkPermission that decides when the request enters and answers later
checkPermissionRemembered(i) ==
  /\ req[i].guard.kind = "checkPermission"
  /\ \/ /\ req[i].pc = "guard"
        /\ req' = [req EXCEPT ![i] =
             [GuardEntry(@) EXCEPT !.q =
                IF userHasPermission(req[i].user, req[i].guard.names[1])
                  THEN "had" ELSE "had not"]]
     \/ /\ req[i].pc = "query"
        /\ \E threw \in BOOLEAN :
             req' = [req EXCEPT ![i] =
               GuardResolve(@, threw, @.q = "had",
                 <<"Access", "denied.", "Required", "permission:">>
                   \o @.guard.names,
                 <<"Error", "checking", "user", "permissions">>)]
  /\ UNCHANGED store

checkPermission(i) ==
  /\ req[i].guard.kind = "checkPermission"
  /\ \/ /\ req[i].pc = "guard"
        /\ req' = [req EXCEPT ![i] = GuardEntry(@)]
     \/ /\ req[i].pc = "query"
        /\ \E threw \in BOOLEAN :
             req' = [req EXCEPT ![i] =
               GuardResolve(@, threw,
                 userHasPermission(@.user, @.guard.names[1]),
                 <<"Access", "denied.", "Required", "permission:">>
                   \o @.guard.names,
                 <<"Error", "checking", "user", "permissions">>)]
  /\ UNCHANGED store

\* checkAnyPermission that asks for every permission of the list
checkAnyPermissionAll(i) ==
  /\ req[i].guard.kind = "checkAnyPermission"
  /\ \/ /\ req[i].pc = "guard"
        /\ req' = [req EXCEPT ![i] = GuardEntry(@)]
     \/ /\ req[i].pc = "query"
        /\ \E threw \in BOOLEAN :
             req' = [req EXCEPT ![i] =
               GuardResolve(@, threw,
                 \A k \in DOMAIN @.guard.names :
                   userHasPermission(@.user, @.guard.names[k]),
                 <<"Access", "denied.", "Required", "one", "of", "these",
                   "permissions:">> \o Join(@.guard.names),
                 <<"Error", "checking", "user", "permissions">>)]
  /\ UNCHANGED store

checkAnyPermission(i) ==
  /\ req[i].guard.kind = "checkAnyPermission"
  /\ \/ /\ req[i].pc = "guard"
        /\ req' = [req EXCEPT ![i] = GuardEntry(@)]
     \/ /\ req[i].pc = "query"
        /\ \E threw \in BOOLEAN :
             req' = [req EXCEPT ![i] =
               GuardResolve(@, threw,
                 userHasAnyPermission(@.user, @.guard.names),
                 <<"Access", "denied.", "Required", "one", "of", "these",
                   "permissions:">> \o Join(@.guard.names),
                 <<"Error", "checking", "user", "permissions">>)]
  /\ UNCHANGED store

\* checkRole that assigns the role it asked for when the user lacks it
checkRoleProvisioning(i) ==
  /\ req[i].guard.kind = "checkRole"
  /\ \/ /\ req[i].pc = "guard"
        /\ req' = [req EXCEPT ![i] = GuardEntry(@)]
        /\ UNCHANGED userRole
     \/ /\ req[i].pc = "query"
        /\ \E threw \in BOOLEAN :
             LET has == userHasRole(req[i].user, req[i].guard.names[1])
                 found == getRoleByName(req[i].guard.names[1])
             IN /\ req' = [req EXCEPT ![i] =
                     GuardResolve(@, threw, has,
                       <<"Access", "denied.", "Required", "role:">> \o @.guard.names,
                       <<"Error", "checking", "user", "roles">>)]
                /\ userRole' =
                     IF ~threw /\ ~has /\ found # Null /\ req[i].user \in UserIds
                       THEN userRole (+)
                              SetToBag({[userId |-> req[i].user,
                                         roleId |-> found.id]})
                       ELSE userRole
  /\ UNCHANGED <<user, role, permission, rolePermission>>

checkRole(i) ==
  /\ req[i].guard.kind = "checkRole"
  /\ \/ /\ req[i].pc = "guard"
        /\ req' = [req EXCEPT ![i] = GuardEntry(@)]
     \/ /\ req[i].pc = "query"
        /\ \E threw \in BOOLEAN :
             req' = [req EXCEPT ![i] =
               GuardResolve(@, threw,
                 userHasRole(@.user, @.guard.names[1]),
                 <<"Access", "denied.", "Required", "role:">> \o @.guard.names,
                 <<"Error", "checking", "user", "roles">>)]
  /\ UNCHANGED store

\* checkAnyRole that lets the email of the token stand for a role
checkAnyRoleByEmail(i) ==
  /\ req[i].guard.kind = "checkAnyRole"
  /\ \/ /\ req[i].pc = "guard"
        /\ req' = [req EXCEPT ![i] = GuardEntry(@)]
     \/ /\ req[i].pc = "query"
        /\ \E threw \in BOOLEAN :
             req' = [req EXCEPT ![i] =
               GuardResolve(@, threw,
                 userHasAnyRole(@.user, @.guard.names) \/ @.email = "former",
                 <<"Access", "denied.", "Required", "one", "of", "these",
                   "roles:">> \o Join(@.guard.names),
                 <<"Error", "checking", "user", "roles">>)]
  /\ UNCHANGED store

checkAnyRole(i) ==
  /\ req[i].guard.kind = "checkAnyRole"
  /\ \/ /\ req[i].pc = "guard"
        /\ req' = [req EXCEPT ![i] = GuardEntry(@)]
     \/ /\ req[i].pc = "query"
        /\ \E threw \in BOOLEAN :
             req' = [req EXCEPT ![i] =
               GuardResolve(@, threw,
                 userHasAnyRole(@.user, @.guard.names),
                 <<"Access", "denied.", "Required", "one", "of", "these",
                   "roles:">> \o Join(@.guard.names),
                 <<"Error", "checking", "user", "roles">>)]
  /\ UNCHANGED store

\* a handler behind a guard that does not touch the authorization tables
protectedHandler(i) ==
  /\ req[i].pc = "handler"
  /\ req[i].handler = "protected"
  /\ req' = [req EXCEPT ![i] = Respond(@, 200, <<>>)]
  /\ UNCHANGED store

\* permissionController.getUserPermissions behind
\* checkPermission('ROLE_READ'): the effective permissions of :userId
getUserPermissionsRoute ==
  [guard |-> [kind |-> "checkPermission", names |-> <<"ROLE_READ">>],
   handler |-> "getUserPermissions"]

getUserPermissionsHandler(i) ==
  /\ req[i].pc = "handler"
  /\ req[i].handler = "getUserPermissions"
  /\ \E userId \in {studentUser, "uX"}, threw \in BOOLEAN :
       LET r == [req[i] EXCEPT !.params.userId = userId]
       IN req' = [req EXCEPT ![i] =
            IF threw
              THEN Respond(r, 500, <<"Error", "fetching", "user", "permissions">>)
              ELSE Respond([r EXCEPT !.data = getUserPermissions(userId)],
                           200, <<>>)]
  /\ UNCHANGED store

(***************************************************************************)
(* Errors                                                                  *)
(***************************************************************************)
\* messages are kept as the list of their words
ErrRoleNotFound(roleName) == <<"Role", roleName, "not", "found">>

\* the message without the name
ErrPermissionNotFoundUnnamed(permissionName) == <<"Permission", "not", "found">>

ErrPermissionNotFound(permissionName) ==
  <<"Permission", permissionName, "not", "found">>

ErrUserNotFound == <<"User", "not", "found">>

ErrAlreadyHas(roleName) == <<"User", "already", "has", "the", "role:", roleName>>

ErrDoesNotHave(roleName) ==
  <<"User", "does", "not", "have", "the", "role:", roleName>>

\* errors the ORM raises: unique constraint, foreign key, record of a
\* delete missing, store unreachable
P2002(fields) ==
  <<"Unique", "constraint", "failed", "on", "the", "fields:">> \o fields

P2003(field) ==
  <<"Foreign", "key", "constraint", "failed", "on", "the", "field:", field>>

P2025 ==
  <<"An", "operation", "failed", "because", "it", "depends", "on", "one", "or",
    "more", "records", "that", "were", "required", "but", "not", "found", ".",
    "Record", "to", "delete", "does", "not", "exist", ".">>

StoreDown == <<"Can't", "reach", "database", "server">>

\* error.message.includes(words)
includes(message, words) ==
  \E k \in 0..(Len(message) - Len(words)) :
    SubSeq(message, k + 1, k + Len(words)) = words

(***************************************************************************)
(* Writes on userRole and rolePermission                                   *)
(***************************************************************************)
UserRoleRow(userId, roleId) == [userId |-> userId, roleId |-> roleId]

RolePermissionRow(roleId, permissionId) ==
  [roleId |-> roleId, permissionId |-> permissionId]

\* userRole without its compound unique key
userRoleCreateErrorNoUnique(row) ==
  IF row.userId \notin UserIds
    THEN P2003("userId")
    ELSE IF ~ \E r \in role : r.id = row.roleId
      THEN P2003("roleId")
      ELSE <<>>

\* the error prisma.userRole.create raises for a row, <<>> when it inserts:
\* the compound unique key userId_roleId, then the relations to user and role
userRoleCreateError(row) ==
  IF BagIn(row, userRole)
    THEN P2002(<<"(userId,roleId)">>)
    ELSE IF row.userId \notin UserIds
      THEN P2003("userId")
      ELSE IF ~ \E r \in role : r.id = row.roleId
        THEN P2003("roleId")
        ELSE <<>>

\* rolePermission without its compound unique key
rolePermissionCreateErrorNoUnique(row) ==
  IF ~ \E r \in role : r.id = row.roleId
    THEN P2003("roleId")
    ELSE IF ~ \E p \in permission : p.id = row.permissionId
      THEN P2003("permissionId")
      ELSE <<>>

\* the error prisma.rolePermission.create raises for a row: the compound
\* unique key roleId_permissionId, then the relations
rolePermissionCreateError(row) ==
  IF BagIn(row, rolePermission)
    THEN P2002(<<"(roleId,permissionId)">>)
    ELSE IF ~ \E r \in role : r.id = row.roleId
      THEN P2003("roleId")
      ELSE IF ~ \E p \in permission : p.id = row.permissionId
        THEN P2003("permissionId")
        ELSE <<>>

\* create: the table with the row added
Create(table, row) == table (+) SetToBag({row})

\* deleteMany({ where: row }): the table without any copy of the row
DeleteMany(table, row) ==
  [x \in Rows(table) \ {row} |-> table[x]]

(***************************************************************************)
(* Management routes: all behind checkPermission(ROLE_MANAGE)              *)
(***************************************************************************)
Managed(handler) ==
  [guard |-> [kind |-> "checkPermission", names |-> <<"ROLE_MANAGE">>],
   handler |-> handler]

RolePathRoutes == { Managed("roleAssign"), Managed("roleRemove") }

UserPathRoutes == { Managed("userAssign"), Managed("userRemove") }

PermissionRoutes == { Managed("permAssign"), Managed("permRemove") }

\* inputs of the management requests
TargetUsers == { studentUser, "uX" }

RoleNames == { "admin", "student" }

\* a :roleId of the permission routes that no role carries
UnknownRoleId == <<"role", 0>>

TargetRoleIds == { RoleIdOf("student"), UnknownRoleId }

PermissionNames == { "COURSE_READ", "ATTENDANCE_MANAGE" }

(***************************************************************************)
(* roleController / roleService: assign and remove                         *)
(***************************************************************************)
\* the catch of roleController and permissionController
Catch400(r, error) == Respond(r, 400, error)

\* roleService.assignRoleToUser up to its create: the role looked up by
\* name, for requests naming one of the users and one of the roles
roleAssignLookupFor(i, userIds, roleNames) ==
  /\ req[i].pc = "handler"
  /\ req[i].handler = "roleAssign"
  /\ \E userId \in userIds, roleName \in roleNames, threw \in BOOLEAN :
       LET r == [req[i] EXCEPT !.params.userId = userId,
                               !.params.roleName = roleName]
           found == getRoleByName(roleName)
       IN req' = [req EXCEPT ![i] =
            IF threw THEN Catch400(r, StoreDown)
            ELSE IF found = Null THEN Catch400(r, ErrRoleNotFound(roleName))
            ELSE [r EXCEPT !.pc = "create", !.found = found]]
  /\ UNCHANGED store

roleAssignLookup(i) ==
  roleAssignLookupFor(i, TargetUsers, RoleNames \cup {"guest"})

\* assignRoleToUser that replaces the roles of the user by the one assigned
roleAssignCreateReplace(i) ==
  /\ req[i].pc = "create"
  /\ req[i].handler = "roleAssign"
  /\ LET row == UserRoleRow(req[i].params.userId, req[i].found.id)
         error == userRoleCreateError(row)
         kept == { x \in Rows(userRole) : x.userId # row.userId }
     IN \/ /\ req' = [req EXCEPT ![i] = Catch400(@, StoreDown)]
           /\ UNCHANGED userRole
        \/ /\ error # <<>>
           /\ req' = [req EXCEPT ![i] = Catch400(@, error)]
           /\ UNCHANGED userRole
        \/ /\ error = <<>>
           /\ userRole' = Create([x \in kept |-> userRole[x]], row)
           /\ req' = [req EXCEPT ![i] = Respond([@ EXCEPT !.count = 1], 201, <<>>)]
  /\ UNCHANGED <<user, role, permission, rolePermission>>

\* prisma.userRole.create of roleService.assignRoleToUser and the response
roleAssignCreate(i) ==
  /\ req[i].pc = "create"
  /\ req[i].handler = "roleAssign"
  /\ LET row == UserRoleRow(req[i].params.userId, req[i].found.id)
         error == userRoleCreateError(row)
     IN \/ /\ req' = [req EXCEPT ![i] = Catch400(@, StoreDown)]
           /\ UNCHANGED userRole
        \/ /\ error # <<>>
           /\ req' = [req EXCEPT ![i] = Catch400(@, error)]
           /\ UNCHANGED userRole
        \/ /\ error = <<>>
           /\ CopiesIn(row, userRole) < MaxCopies
           /\ userRole' = Create(userRole, row)
           /\ req' = [req EXCEPT ![i] = Respond([@ EXCEPT !.count = 1], 201, <<>>)]
  /\ UNCHANGED <<user, role, permission, rolePermission>>

\* roleService.removeRoleFromUser up to its deleteMany, for requests naming
\* one of the users and one of the roles
roleRemoveLookupFor(i, userIds, roleNames) ==
  /\ req[i].pc = "handler"
  /\ req[i].handler = "roleRemove"
  /\ \E userId \in userIds, roleName \in roleNames, threw \in BOOLEAN :
       LET r == [req[i] EXCEPT !.params.userId = userId,
                               !.params.roleName = roleName]
           found == getRoleByName(roleName)
       IN req' = [req EXCEPT ![i] =
            IF threw THEN Catch400(r, StoreDown)
            ELSE IF found = Null THEN Catch400(r, ErrRoleNotFound(roleName))
            ELSE [r EXCEPT !.pc = "delete", !.found = found]]
  /\ UNCHANGED store

\* removeRoleFromUser that reports success for a role it does not find
roleRemoveLookupLenient(i) ==
  /\ req[i].pc = "handler"
  /\ req[i].handler = "roleRemove"
  /\ \E userId \in TargetUsers, roleName \in RoleNames \cup {"guest"},
        threw \in BOOLEAN :
       LET r == [req[i] EXCEPT !.params.userId = userId,
                               !.params.roleName = roleName]
           found == getRoleByName(roleName)
       IN req' = [req EXCEPT ![i] =
            IF threw THEN Catch400(r, StoreDown)
            ELSE IF found = Null THEN Respond(r, 200, <<>>)
            ELSE [r EXCEPT !.pc = "delete", !.found = found]]
  /\ UNCHANGED store

\* roleService.removeRoleFromUser up to its deleteMany
roleRemoveLookup(i) ==
  roleRemoveLookupFor(i, TargetUsers, RoleNames \cup {"guest"})

\* removeRoleFromUser written with delete, which raises when the row is missing
roleRemoveDeleteUnique(i) ==
  /\ req[i].pc = "delete"
  /\ req[i].handler = "roleRemove"
  /\ LET row == UserRoleRow(req[i].params.userId, req[i].found.id)
     IN \/ /\ req' = [req EXCEPT ![i] = Catch400(@, StoreDown)]
           /\ UNCHANGED userRole
        \/ /\ ~BagIn(row, userRole)
           /\ req' = [req EXCEPT ![i] = Catch400(@, P2025)]
           /\ UNCHANGED userRole
        \/ /\ BagIn(row, userRole)
           /\ userRole' = DeleteMany(userRole, row)
           /\ req' = [req EXCEPT ![i] = Respond([@ EXCEPT !.count = 1], 200, <<>>)]
  /\ UNCHANGED <<user, role, permission, rolePermission>>

\* prisma.userRole.deleteMany of roleService.removeRoleFromUser and the
\* response
roleRemoveDelete(i) ==
  /\ req[i].pc = "delete"
  /\ req[i].handler = "roleRemove"
  /\ LET row == UserRoleRow(req[i].params.userId, req[i].found.id)
     IN \/ /\ req' = [req EXCEPT ![i] = Catch400(@, StoreDown)]
           /\ UNCHANGED userRole
        \/ /\ userRole' = DeleteMany(userRole, row)
           /\ req' = [req EXCEPT ![i] =
                Respond([@ EXCEPT !.count = CopiesIn(row, userRole)], 200, <<>>)]
  /\ UNCHANGED <<user, role, permission, rolePermission>>

(***************************************************************************)
(* userController / userService: assignRole and removeRole                 *)
(***************************************************************************)
\* the catch of userController.assignRole and removeRole: the status is
\* chosen by the words of the message
CatchByMessage(r, error, conflict) ==
  Respond(r,
          IF includes(error, <<"not", "found">>) THEN 404
          ELSE IF includes(error, conflict) THEN 409
          ELSE 500,
          error)

\* the words the two catches look for
AlreadyHas == <<"already", "has">>

DoesNotHave == <<"does", "not", "have">>

CatchAssign(r, error) == CatchByMessage(r, error, AlreadyHas)

CatchRemove(r, error) == CatchByMessage(r, error, DoesNotHave)

\* prisma.user.findUnique({ where: { id } })
userFindUnique(id) == IF id \in UserIds THEN [id |-> id] ELSE Null

\* prisma.userRole.findUnique({ where: { userId_roleId } })
userRoleFindUnique(userId, roleId) ==
  IF BagIn(UserRoleRow(userId, roleId), userRole)
    THEN UserRoleRow(userId, roleId)
    ELSE Null

\* prisma.userRole.delete({ where: { userId_roleId } }): the error it raises
\* when the row is missing, <<>> otherwise
userRoleDeleteError(row) ==
  IF BagIn(row, userRole) THEN <<>> ELSE P2025

\* first step of both handlers: the parameters (validated by userIdSchema and
\* userRoleSchema) and the user looked up
userPathFindUser(i, handler, conflict) ==
  /\ req[i].pc = "handler"
  /\ req[i].handler = handler
  /\ \E userId \in TargetUsers, roleName \in RoleNames, threw \in BOOLEAN :
       LET r == [req[i] EXCEPT !.params.userId = userId,
                               !.params.roleName = roleName]
       IN req' = [req EXCEPT ![i] =
            IF threw THEN CatchByMessage(r, StoreDown, conflict)
            ELSE IF userFindUnique(userId) = Null THEN CatchByMessage(r, ErrUserNotFound, conflict)
            ELSE [r EXCEPT !.pc = "role"]]
  /\ UNCHANGED store

\* second step of both handlers: roleService.getRoleByName
userPathFindRole(i, handler, conflict) ==
  /\ req[i].pc = "role"
  /\ req[i].handler = handler
  /\ \E threw \in BOOLEAN :
       LET found == getRoleByName(req[i].params.roleName)
       IN req' = [req EXCEPT ![i] =
            IF threw THEN CatchByMessage(@, StoreDown, conflict)
            ELSE IF found = Null
              THEN CatchByMessage(@, ErrRoleNotFound(@.params.roleName), conflict)
              ELSE [@ EXCEPT !.pc = "exists", !.found = found]]
  /\ UNCHANGED store

\* last step of both handlers: getUserById and the response
userPathGetUser(i, handler, conflict) ==
  /\ req[i].pc = "get"
  /\ req[i].handler = handler
  /\ \E threw \in BOOLEAN :
       req' = [req EXCEPT ![i] =
         IF threw THEN CatchByMessage(@, StoreDown, conflict)
         ELSE IF userFindUnique(@.params.userId) = Null
           THEN CatchByMessage(@, ErrUserNotFound, conflict)
           ELSE Respond(@, 200, <<>>)]
  /\ UNCHANGED store

userAssignFindUser(i) == userPathFindUser(i, "userAssign", AlreadyHas)

userAssignFindRole(i) == userPathFindRole(i, "userAssign", AlreadyHas)

\* userService.assignRoleToUser: does the user already have the role
userAssignExists(i) ==
  /\ req[i].pc = "exists"
  /\ req[i].handler = "userAssign"
  /\ \E threw \in BOOLEAN :
       req' = [req EXCEPT ![i] =
         IF threw THEN CatchAssign(@, StoreDown)
         ELSE IF userRoleFindUnique(@.params.userId, @.found.id) # Null
           THEN CatchAssign(@, ErrAlreadyHas(@.params.roleName))
           ELSE [@ EXCEPT !.pc = "create"]]
  /\ UNCHANGED store

\* userService.assignRoleToUser giving the user the role in place of the
\* roles it had
userAssignCreateExclusive(i) ==
  /\ req[i].pc = "create"
  /\ req[i].handler = "userAssign"
  /\ LET row == UserRoleRow(req[i].params.userId, req[i].found.id)
         error == userRoleCreateError(row)
         kept == { x \in Rows(userRole) : x.userId # row.userId }
     IN \/ /\ req' = [req EXCEPT ![i] = CatchAssign(@, StoreDown)]
           /\ UNCHANGED userRole
        \/ /\ error # <<>>
           /\ req' = [req EXCEPT ![i] = CatchAssign(@, error)]
           /\ UNCHANGED userRole
        \/ /\ error = <<>>
           /\ userRole' = Create([x \in kept |-> userRole[x]], row)
           /\ req' = [req EXCEPT ![i].pc = "get", ![i].count = 1]
  /\ UNCHANGED <<user, role, permission, rolePermission>>

\* userService.assignRoleToUser: prisma.userRole.create
userAssignCreate(i) ==
  /\ req[i].pc = "create"
  /\ req[i].handler = "userAssign"
  /\ LET row == UserRoleRow(req[i].params.userId, req[i].found.id)
         error == userRoleCreateError(row)
     IN \/ /\ req' = [req EXCEPT ![i] = CatchAssign(@, StoreDown)]
           /\ UNCHANGED userRole
        \/ /\ error # <<>>
           /\ req' = [req EXCEPT ![i] = CatchAssign(@, error)]
           /\ UNCHANGED userRole
        \/ /\ error = <<>>
           /\ CopiesIn(row, userRole) < MaxCopies
           /\ userRole' = Create(userRole, row)
           /\ req' = [req EXCEPT ![i].pc = "get", ![i].count = 1]
  /\ UNCHANGED <<user, role, permission, rolePermission>>

userAssignGetUser(i) == userPathGetUser(i, "userAssign", AlreadyHas)

userRemoveFindUser(i) == userPathFindUser(i, "userRemove", DoesNotHave)

userRemoveFindRole(i) == userPathFindRole(i, "userRemove", DoesNotHave)

\* userService.removeRoleFromUser: does the user have the role
userRemoveExists(i) ==
  /\ req[i].pc = "exists"
  /\ req[i].handler = "userRemove"
  /\ \E threw \in BOOLEAN :
       req' = [req EXCEPT ![i] =
         IF threw THEN CatchRemove(@, StoreDown)
         ELSE IF userRoleFindUnique(@.params.userId, @.found.id) = Null
           THEN CatchRemove(@, ErrDoesNotHave(@.params.roleName))
           ELSE [@ EXCEPT !.pc = "delete"]]
  /\ UNCHANGED store

\* userService.removeRoleFromUser: prisma.userRole.delete
userRemoveDelete(i) ==
  /\ req[i].pc = "delete"
  /\ req[i].handler = "userRemove"
  /\ LET row == UserRoleRow(req[i].params.userId, req[i].found.id)
         error == userRoleDeleteError(row)
     IN \/ /\ req' = [req EXCEPT ![i] = CatchRemove(@, StoreDown)]
           /\ UNCHANGED userRole
        \/ /\ error # <<>>
           /\ req' = [req EXCEPT ![i] = CatchRemove(@, error)]
           /\ UNCHANGED userRole
        \/ /\ error = <<>>
           /\ userRole' = DeleteMany(userRole, row)
           /\ req' = [req EXCEPT ![i].pc = "get", ![i].count = 1]
  /\ UNCHANGED <<user, role, permission, rolePermission>>

userRemoveGetUser(i) == userPathGetUser(i, "userRemove", DoesNotHave)

(***************************************************************************)
(* permissionController / permissionService: grant and revoke              *)
(***************************************************************************)
\* assignPermissionToRole up to its create: the permission looked up by
\* name, for requests naming one of the roles and one of the permissions
permAssignLookupFor(i, roleIds, permissionNames) ==
  /\ req[i].pc = "handler"
  /\ req[i].handler = "permAssign"
  /\ \E roleId \in roleIds, permissionName \in permissionNames,
        threw \in BOOLEAN :
       LET r == [req[i] EXCEPT !.params.roleId = roleId,
                               !.params.permissionName = permissionName]
           found == getPermissionByName(permissionName)
       IN req' = [req EXCEPT ![i] =
            IF threw THEN Catch400(r, StoreDown)
            ELSE IF found = Null
              THEN Catch400(r, ErrPermissionNotFound(permissionName))
              ELSE [r EXCEPT !.pc = "create", !.found = found]]
  /\ UNCHANGED store

permAssignLookup(i) == permAssignLookupFor(i, TargetRoleIds, PermissionNames)

\* prisma.rolePermission.create of assignPermissionToRole and the response
permAssignCreate(i) ==
  /\ req[i].pc = "create"
  /\ req[i].handler = "permAssign"
  /\ LET row == RolePermissionRow(req[i].params.roleId, req[i].found.id)
         error == rolePermissionCreateError(row)
     IN \/ /\ req' = [req EXCEPT ![i] = Catch400(@, StoreDown)]
           /\ UNCHANGED rolePermission
        \/ /\ error # <<>>
           /\ req' = [req EXCEPT ![i] = Catch400(@, error)]
           /\ UNCHANGED rolePermission
        \/ /\ error = <<>>
           /\ CopiesIn(row, rolePermission) < MaxCopies
           /\ rolePermission' = Create(rolePermission, row)
           /\ req' = [req EXCEPT ![i] = Respond([@ EXCEPT !.count = 1], 201, <<>>)]
  /\ UNCHANGED <<user, role, permission, userRole>>

\* removePermissionFromRole up to its deleteMany, for requests naming one
\* of the roles and one of the permissions
permRemoveLookupFor(i, roleIds, permissionNames) ==
  /\ req[i].pc = "handler"
  /\ req[i].handler = "permRemove"
  /\ \E roleId \in roleIds, permissionName \in permissionNames,
        threw \in BOOLEAN :
       LET r == [req[i] EXCEPT !.params.roleId = roleId,
                               !.params.permissionName = permissionName]
           found == getPermissionByName(permissionName)
       IN req' = [req EXCEPT ![i] =
            IF threw THEN Catch400(r, StoreDown)
            ELSE IF found = Null
              THEN Catch400(r, ErrPermissionNotFound(permissionName))
              ELSE [r EXCEPT !.pc = "delete", !.found = found]]
  /\ UNCHANGED store

permRemoveLookup(i) == permRemoveLookupFor(i, TargetRoleIds, PermissionNames)

\* removePermissionFromRole whose where leaves out roleId
permRemoveDeleteAnyRole(i) ==
  /\ req[i].pc = "delete"
  /\ req[i].handler = "permRemove"
  /\ LET row == RolePermissionRow(req[i].params.roleId, req[i].found.id)
         kept == { x \in Rows(rolePermission) : x.permissionId # row.permissionId }
     IN \/ /\ req' = [req EXCEPT ![i] = Catch400(@, StoreDown)]
           /\ UNCHANGED rolePermission
        \/ /\ rolePermission' = [x \in kept |-> rolePermission[x]]
           /\ req' = [req EXCEPT ![i] =
                Respond([@ EXCEPT !.count = CopiesIn(row, rolePermission)],
                        200, <<>>)]
  /\ UNCHANGED <<user, role, permission, userRole>>

\* prisma.rolePermission.deleteMany of removePermissionFromRole and the
\* response
permRemoveDelete(i) ==
  /\ req[i].pc = "delete"
  /\ req[i].handler = "permRemove"
  /\ LET row == RolePermissionRow(req[i].params.roleId, req[i].found.id)
     IN \/ /\ req' = [req EXCEPT ![i] = Catch400(@, StoreDown)]
           /\ UNCHANGED rolePermission
        \/ /\ rolePermission' = DeleteMany(rolePermission, row)
           /\ req' = [req EXCEPT ![i] =
                Respond([@ EXCEPT !.count = CopiesIn(row, rolePermission)],
                        200, <<>>)]
  /\ UNCHANGED <<user, role, permission, userRole>>

(***************************************************************************)
(* userController / userService: createUser and deleteUser;                *)
(* authController / authService: register                                  *)
(***************************************************************************)
createUserRoute ==
  [guard |-> [kind |-> "checkPermission", names |-> <<"USER_CREATE">>],
   handler |-> "createUser"]

deleteUserRoute ==
  [guard |-> [kind |-> "checkPermission", names |-> <<"USER_DELETE">>],
   handler |-> "deleteUser"]

\* the id the store gives the user made by createUser, and by register; a
\* request stands for one email, that of its user
CreatedUser == "uN"

RegisteredUser == "uR"

\* the :id of deleteUser
DeleteTargets == { studentUser, CreatedUser }

ErrUserExists == <<"User", "already", "exists", "with", "this", "email">>

\* update of a row that is not there
P2025Update ==
  <<"An", "operation", "failed", "because", "it", "depends", "on", "one", "or",
    "more", "records", "that", "were", "required", "but", "not", "found", ".",
    "Record", "to", "update", "not", "found", ".">>

\* the catch of userController.createUser
CatchCreateUser(r, error) ==
  Respond(r, IF includes(error, <<"already", "exists">>) THEN 409 ELSE 500, error)

\* the catch of userController.deleteUser: error.message === 'User not found'
CatchDeleteUser(r, error) ==
  Respond(r, IF error = ErrUserNotFound THEN 404 ELSE 500, error)

\* the row of a user as prisma.user.create makes it
NewUserRow(id) == [id |-> id, active |-> TRUE]

\* userService.createUser: prisma.user.findUnique({ where: { email } })
createUserFind(i) ==
  /\ req[i].pc = "handler"
  /\ req[i].handler = "createUser"
  /\ \E threw \in BOOLEAN :
       LET r == [req[i] EXCEPT !.params.userId = CreatedUser]
       IN req' = [req EXCEPT ![i] =
            IF threw THEN CatchCreateUser(r, StoreDown)
            ELSE IF CreatedUser \in UserIds THEN CatchCreateUser(r, ErrUserExists)
            ELSE [r EXCEPT !.pc = "create"]]
  /\ UNCHANGED store

\* userService.createUser: prisma.user.create with the nested
\* roles: { create: { role: { connect: { name: 'student' } } } }
createUserCreate(i) ==
  /\ req[i].pc = "create"
  /\ req[i].handler = "createUser"
  /\ LET id == req[i].params.userId
         found == getRoleByName("student")
     IN \/ /\ req' = [req EXCEPT ![i] = CatchCreateUser(@, StoreDown)]
           /\ UNCHANGED <<user, userRole>>
        \/ /\ id \in UserIds
           /\ req' = [req EXCEPT ![i] = CatchCreateUser(@, P2002(<<"(email)">>))]
           /\ UNCHANGED <<user, userRole>>
        \/ /\ id \notin UserIds
           /\ found = Null
           /\ req' = [req EXCEPT ![i] = CatchCreateUser(@, P2025)]
           /\ UNCHANGED <<user, userRole>>
        \/ /\ id \notin UserIds
           /\ found # Null
           /\ user' = user \cup {NewUserRow(id)}
           /\ userRole' = Create(userRole, UserRoleRow(id, found.id))
           /\ req' = [req EXCEPT ![i] = Respond([@ EXCEPT !.count = 1], 201, <<>>)]
  /\ UNCHANGED <<role, permission, rolePermission>>

\* POST /auth/register, no middleware in front: authService.register up to
\* its create, prisma.user.findUnique({ where: { email } })
registerFind(i) ==
  /\ req[i].pc \in {"idle", "done"}
  /\ \E threw \in BOOLEAN :
       LET r == [Idle EXCEPT !.handler = "register",
                             !.params.userId = RegisteredUser]
       IN req' = [req EXCEPT ![i] =
            IF threw THEN Catch400(r, StoreDown)
            ELSE IF RegisteredUser \in UserIds THEN Catch400(r, ErrUserExists)
            ELSE [r EXCEPT !.pc = "create"]]
  /\ UNCHANGED store

\* authService.register: prisma.user.create, the data naming no role
registerCreate(i) ==
  /\ req[i].pc = "create"
  /\ req[i].handler = "register"
  /\ LET id == req[i].params.userId
     IN \/ /\ req' = [req EXCEPT ![i] = Catch400(@, StoreDown)]
           /\ UNCHANGED user
        \/ /\ id \in UserIds
           /\ req' = [req EXCEPT ![i] = Catch400(@, P2002(<<"(email)">>))]
           /\ UNCHANGED user
        \/ /\ id \notin UserIds
           /\ user' = user \cup {NewUserRow(id)}
           /\ req' = [req EXCEPT ![i] = Respond([@ EXCEPT !.count = 0], 201, <<>>)]
  /\ UNCHANGED <<role, permission, userRole, rolePermission>>

\* userService.deleteUser: prisma.user.findUnique({ where: { id } })
deleteUserFind(i) ==
  /\ req[i].pc = "handler"
  /\ req[i].handler = "deleteUser"
  /\ \E id \in DeleteTargets, threw \in BOOLEAN :
       LET r == [req[i] EXCEPT !.params.userId = id]
       IN req' = [req EXCEPT ![i] =
            IF threw THEN CatchDeleteUser(r, StoreDown)
            ELSE IF userFindUnique(id) = Null THEN CatchDeleteUser(r, ErrUserNotFound)
            ELSE [r EXCEPT !.pc = "update"]]
  /\ UNCHANGED store

\* deleteUser that takes the role assignments of the user with it
deleteUserUpdateCascade(i) ==
  /\ req[i].pc = "update"
  /\ req[i].handler = "deleteUser"
  /\ LET id == req[i].params.userId
     IN \/ /\ req' = [req EXCEPT ![i] = CatchDeleteUser(@, StoreDown)]
           /\ UNCHANGED <<user, userRole>>
        \/ /\ id \notin UserIds
           /\ req' = [req EXCEPT ![i] = CatchDeleteUser(@, P2025Update)]
           /\ UNCHANGED <<user, userRole>>
        \/ /\ id \in UserIds
           /\ user' = { IF u.id = id THEN [u EXCEPT !.active = FALSE] ELSE u :
                          u \in user }
           /\ userRole' = [x \in { ur \in Rows(userRole) : ur.userId # id } |->
                             userRole[x]]
           /\ req' = [req EXCEPT ![i] = Respond(@, 200, <<>>)]
  /\ UNCHANGED <<role, permission, rolePermission>>

\* userService.deleteUser: prisma.user.update({ data: { active: false } })
deleteUserUpdate(i) ==
  /\ req[i].pc = "update"
  /\ req[i].handler = "deleteUser"
  /\ LET id == req[i].params.userId
     IN \/ /\ req' = [req EXCEPT ![i] = CatchDeleteUser(@, StoreDown)]
           /\ UNCHANGED user
        \/ /\ id \notin UserIds
           /\ req' = [req EXCEPT ![i] = CatchDeleteUser(@, P2025Update)]
           /\ UNCHANGED user
        \/ /\ id \in UserIds
           /\ user' = { IF u.id = id THEN [u EXCEPT !.active = FALSE] ELSE u :
                          u \in user }
           /\ req' = [req EXCEPT ![i] = Respond(@, 200, <<>>)]
  /\ UNCHANGED <<role, permission, userRole, rolePermission>>

(***************************************************************************)
(* userController / userService: updateUser                                *)
(***************************************************************************)
updateUserRoute ==
  [guard |-> [kind |-> "checkPermission", names |-> <<"USER_UPDATE">>],
   handler |-> "updateUser"]

\* the :id of updateUser
UpdateTargets == { studentUser }

\* the request bodies of PUT /users/:id.  validate(updateUserSchema) parses
\* req.body and keeps nothing of the result, and the schema is an object that
\* lets unknown keys through, so the body reaches the service as it was sent:
\*   "active"          { active: false }
\*   "rolesCreate"     { roles: { create: { role: { connect: { name: 'admin' } } } } }
\*   "rolesDeleteMany" { roles: { deleteMany: {} } }
Bodies == { "active", "rolesCreate", "rolesDeleteMany" }

\* the catch of userController.updateUser
CatchUpdateUser(r, error) ==
  Respond(r, IF error = ErrUserNotFound THEN 404
             ELSE IF includes(error, <<"already", "in", "use">>) THEN 409
             ELSE 500, error)

\* userService.updateUser: prisma.user.findUnique({ where: { id } }); a body
\* without email skips the second lookup
updateUserFind(i) ==
  /\ req[i].pc = "handler"
  /\ req[i].handler = "updateUser"
  /\ \E id \in UpdateTargets, body \in Bodies, threw \in BOOLEAN :
       LET r == [req[i] EXCEPT !.params.userId = id, !.params.body = body]
       IN req' = [req EXCEPT ![i] =
            IF threw THEN CatchUpdateUser(r, StoreDown)
            ELSE IF userFindUnique(id) = Null THEN CatchUpdateUser(r, ErrUserNotFound)
            ELSE [r EXCEPT !.pc = "update"]]
  /\ UNCHANGED store

\* userService.updateUser: prisma.user.update({ where: { id }, data: userData })
\* with userData the body as sent, nested writes on roles included
updateUserUpdate(i) ==
  /\ req[i].pc = "update"
  /\ req[i].handler = "updateUser"
  /\ LET id == req[i].params.userId
         body == req[i].params.body
         found == getRoleByName("admin")
     IN \/ /\ req' = [req EXCEPT ![i] = CatchUpdateUser(@, StoreDown)]
           /\ UNCHANGED <<user, userRole>>
        \/ /\ id \notin UserIds
           /\ req' = [req EXCEPT ![i] = CatchUpdateUser(@, P2025Update)]
           /\ UNCHANGED <<user, userRole>>
        \/ /\ id \in UserIds
           /\ body = "active"
           /\ user' = { IF u.id = id THEN [u EXCEPT !.active = FALSE] ELSE u :
                          u \in user }
           /\ req' = [req EXCEPT ![i] = Respond(@, 200, <<>>)]
           /\ UNCHANGED userRole
        \/ /\ id \in UserIds
           /\ body = "rolesCreate"
           /\ found = Null
           /\ req' = [req EXCEPT ![i] = CatchUpdateUser(@, P2025)]
           /\ UNCHANGED <<user, userRole>>
        \/ /\ id \in UserIds
           /\ body = "rolesCreate"
           /\ found # Null
           /\ LET row == UserRoleRow(id, found.id)
                  error == userRoleCreateError(row)
              IN IF error # <<>>
                   THEN /\ req' = [req EXCEPT ![i] = CatchUpdateUser(@, error)]
                        /\ UNCHANGED <<user, userRole>>
                   ELSE /\ userRole' = Create(userRole, row)
                        /\ req' = [req EXCEPT ![i] =
                                     Respond([@ EXCEPT !.count = 1], 200, <<>>)]
                        /\ UNCHANGED user
        \/ /\ id \in UserIds
           /\ body = "rolesDeleteMany"
           /\ userRole' = [x \in { ur \in Rows(userRole) : ur.userId # id } |->
                             userRole[x]]
           /\ req' = [req EXCEPT ![i] =
                        Respond([@ EXCEPT !.count = 0], 200, <<>>)]
           /\ UNCHANGED user
  /\ UNCHANGED <<role, permission, rolePermission>>

(***************************************************************************)
(* The membership queries called as operations of the services             *)
(***************************************************************************)
\* what a call gives back: the value it returns, or the error it throws
Returned(value) == [threw |-> FALSE, error |-> <<>>, value |-> value]

Thrown(error) == [threw |-> TRUE, error |-> error, value |-> FALSE]

\* userService.getUserRoles: the names of the roles of the user
userServiceGetUserRoles(userId) ==
  IF userFindUnique(userId) = Null
    THEN Thrown(ErrUserNotFound)
    ELSE Returned({ r.name : r \in { x \in role :
                      BagIn(UserRoleRow(userId, x.id), userRole) } })

\* userService.userHasRole: roles.includes(roleName)
userServiceUserHasRole(userId, roleName) ==
  LET roles == userServiceGetUserRoles(userId)
  IN IF roles.threw THEN roles ELSE Returned(roleName \in roles.value)

\* inputs of the calls
CallUsers == { studentUser, "uX" }

CallRoleNames == { "admin", "student" }

CallPermissionNames == { "COURSE_READ", "STUDENT_MANAGE" }

\* the slot after a call: the operation in handler, its arguments in params
\* and guard.names, its outcome in q and the message thrown in error
Called(operation, userId, names, result) ==
  [Idle EXCEPT !.pc = "done", !.handler = operation,
               !.params.userId = userId, !.guard.names = names,
               !.q = IF result.threw THEN "throw"
                     ELSE IF result.value THEN "true" ELSE "false",
               !.error = result.error]

\* a call whose store query fails throws the error of the store
Outcome(failed, result) == IF failed THEN Thrown(StoreDown) ELSE result

callRoleUserHasRole(i) ==
  /\ req[i].pc \in {"idle", "done"}
  /\ \E userId \in CallUsers, roleName \in CallRoleNames, failed \in BOOLEAN :
       req' = [req EXCEPT ![i] =
         Called("roleService.userHasRole", userId, <<roleName>>,
                Outcome(failed, Returned(userHasRole(userId, roleName))))]
  /\ UNCHANGED store

callRoleUserHasAnyRole(i) ==
  /\ req[i].pc \in {"idle", "done"}
  /\ \E userId \in CallUsers, failed \in BOOLEAN :
       LET names == <<"admin", "teacher">>
       IN req' = [req EXCEPT ![i] =
            Called("roleService.userHasAnyRole", userId, names,
                   Outcome(failed, Returned(userHasAnyRole(userId, names))))]
  /\ UNCHANGED store

callUserHasPermission(i) ==
  /\ req[i].pc \in {"idle", "done"}
  /\ \E userId \in CallUsers, name \in CallPermissionNames, failed \in BOOLEAN :
       req' = [req EXCEPT ![i] =
         Called("permissionService.userHasPermission", userId, <<name>>,
                Outcome(failed, Returned(userHasPermission(userId, name))))]
  /\ UNCHANGED store

callUserHasAnyPermission(i) ==
  /\ req[i].pc \in {"idle", "done"}
  /\ \E userId \in CallUsers, failed \in BOOLEAN :
       LET names == <<"COURSE_DELETE", "COURSE_READ">>
       IN req' = [req EXCEPT ![i] =
            Called("permissionService.userHasAnyPermission", userId, names,
                   Outcome(failed, Returned(userHasAnyPermission(userId, names))))]
  /\ UNCHANGED store

callUserUserHasRole(i) ==
  /\ req[i].pc \in {"idle", "done"}
  /\ \E userId \in CallUsers, roleName \in CallRoleNames, failed \in BOOLEAN :
       req' = [req EXCEPT ![i] =
         Called("userService.userHasRole", userId, <<roleName>>,
                Outcome(failed, userServiceUserHasRole(userId, roleName)))]
  /\ UNCHANGED store

(***************************************************************************)
(* Specifications                                                          *)
(***************************************************************************)
Init ==
  /\ user = { [id |-> id, active |-> TRUE] :
                id \in { adminUser, teacherUser, studentUser } }
  /\ role = SeedRoleTable
  /\ permission = SeedPermissionTable
  /\ userRole = SeedUserRole
  /\ rolePermission = SeedRolePermission
  /\ req = [i \in Slots |-> Idle]

\* the steps of the guards
Guards(i) ==
  \/ checkPermission(i)
  \/ checkAnyPermission(i)
  \/ checkRole(i)
  \/ checkAnyRole(i)

\* the steps of the role path (roleRoutes)
RolePath(i) ==
  \/ roleAssignLookup(i)
  \/ roleAssignCreate(i)
  \/ roleRemoveLookup(i)
  \/ roleRemoveDelete(i)

\* the steps of the user path (userRoutes)
UserPath(i) ==
  \/ userAssignFindUser(i)
  \/ userAssignFindRole(i)
  \/ userAssignExists(i)
  \/ userAssignCreate(i)
  \/ userAssignGetUser(i)
  \/ userRemoveFindUser(i)
  \/ userRemoveFindRole(i)
  \/ userRemoveExists(i)
  \/ userRemoveDelete(i)
  \/ userRemoveGetUser(i)

\* the steps of the permission path (permissionRoutes)
PermissionPath(i) ==
  \/ permAssignLookup(i)
  \/ permAssignCreate(i)
  \/ permRemoveLookup(i)
  \/ permRemoveDelete(i)

\* guarded requests of any principal on s1, while s2 serves role and
\* permission management requests
Next ==
  \/ authenticateToken("s1", Tokens, ProtectedRoutes \cup {getUserPermissionsRoute})
  \/ authenticateToken("s2", {adminUser, InvalidToken}, RolePathRoutes \cup PermissionRoutes)
  \/ \E i \in Slots :
       \/ Guards(i)
       \/ protectedHandler(i)
       \/ getUserPermissionsHandler(i)
       \/ RolePath(i)
       \/ PermissionPath(i)

Spec == Init /\ [][Next]_vars

\* management requests of the role path and the user path served
\* concurrently on both slots
NextManage ==
  \E i \in Slots :
    \/ authenticateToken(i, {adminUser, InvalidToken},
                        RolePathRoutes \cup UserPathRoutes \cup PermissionRoutes)
    \/ checkPermission(i)
    \/ RolePath(i)
    \/ UserPath(i)
    \/ PermissionPath(i)

SpecManage == Init /\ [][NextManage]_vars

\* one administrator changing assignments and grants, a request at a time
NextGrant ==
  \/ authenticateToken("s2", {adminUser, InvalidToken},
                       RolePathRoutes \cup PermissionRoutes)
  \/ checkPermission("s2") \/ RolePath("s2") \/ PermissionPath("s2")

SpecGrant == Init /\ [][NextGrant]_vars

\* the membership queries called on s1 while s2 serves role and permission
\* management requests
NextQueries ==
  \/ callRoleUserHasRole("s1")
  \/ callRoleUserHasAnyRole("s1")
  \/ callUserHasPermission("s1")
  \/ callUserHasAnyPermission("s1")
  \/ callUserUserHasRole("s1")
  \/ authenticateToken("s2", {adminUser, InvalidToken},
                       RolePathRoutes \cup PermissionRoutes)
  \/ checkPermission("s2") \/ RolePath("s2") \/ PermissionPath("s2")

SpecQueries == Init /\ [][NextQueries]_vars

\* the steps of user creation and deletion
UserAdmin(i) ==
  \/ createUserFind(i)
  \/ createUserCreate(i)
  \/ deleteUserFind(i)
  \/ deleteUserUpdate(i)

\* callers of the guarded routes that are not the seeded admin
OtherCallers == { studentUser, CreatedUser, RegisteredUser, InvalidToken }

\* any caller on s1 in front of handlers that only read, while on s2 the
\* admin creates and deletes users, and anyone registers
NextUsers ==
  \/ authenticateToken("s1", OtherCallers,
        { Protected("checkPermission", <<"COURSE_READ">>),
          Protected("checkPermission", <<"STUDENT_MANAGE">>),
          Protected("checkRole", <<"student">>) })
  \/ authenticateToken("s2", {adminUser}, { createUserRoute, deleteUserRoute })
  \/ registerFind("s2") \/ registerCreate("s2")
  \/ \E i \in Slots :
       \/ checkPermission(i) \/ checkRole(i)
       \/ protectedHandler(i)
       \/ UserAdmin(i)

SpecUsers == Init /\ [][NextUsers]_vars

\* the student on s1 calling the management routes and user creation, while
\* on s2 the admin assigns and removes roles and updates a user
NextCallers ==
  \/ authenticateToken("s1", {studentUser, InvalidToken},
        RolePathRoutes \cup UserPathRoutes \cup PermissionRoutes
          \cup {createUserRoute})
  \/ authenticateToken("s2", {adminUser}, RolePathRoutes \cup {updateUserRoute})
  \/ \E i \in Slots :
       \/ checkPermission(i)
       \/ RolePath(i) \/ UserPath(i) \/ PermissionPath(i)
       \/ createUserFind(i) \/ createUserCreate(i)
       \/ updateUserFind(i) \/ updateUserUpdate(i)

SpecCallers == Init /\ [][NextCallers]_vars

\* guarded requests of the student, under a token carrying its email or a
\* former one, and of the teacher on s1, while s2 serves role and permission
\* management requests
NextTokens ==
  \/ authenticateToken("s1", {studentUser, FormerEmailToken, teacherUser},
                       ProtectedRoutes)
  \/ authenticateToken("s2", {adminUser}, RolePathRoutes \cup PermissionRoutes)
  \/ \E i \in Slots :
       \/ Guards(i)
       \/ protectedHandler(i)
       \/ RolePath(i)
       \/ PermissionPath(i)

SpecTokens == Init /\ [][NextTokens]_vars

\* one administrator assigning and removing roles by the role path and by
\* the user path, a request at a time
NextSequence ==
  \/ authenticateToken("s2", {adminUser}, RolePathRoutes \cup UserPathRoutes)
  \/ checkPermission("s2") \/ RolePath("s2") \/ UserPath("s2")

SpecSequence == Init /\ [][NextSequence]_vars

\* the admin and the student on one slot, a request at a time: the admin
\* role assigned to and removed from the admin user, ROLE_MANAGE granted to
\* and revoked from the admin role, users created and updated
NextLockout ==
  \/ authenticateToken("s1", {adminUser, studentUser},
        RolePathRoutes \cup PermissionRoutes \cup {createUserRoute, updateUserRoute})
  \/ checkPermission("s1")
  \/ roleAssignLookupFor("s1", {adminUser}, {"admin"}) \/ roleAssignCreate("s1")
  \/ roleRemoveLookupFor("s1", {adminUser}, {"admin"}) \/ roleRemoveDelete("s1")
  \/ permAssignLookupFor("s1", {RoleIdOf("admin")}, {"ROLE_MANAGE"})
  \/ permAssignCreate("s1")
  \/ permRemoveLookupFor("s1", {RoleIdOf("admin")}, {"ROLE_MANAGE"})
  \/ permRemoveDelete("s1")
  \/ createUserFind("s1") \/ createUserCreate("s1")
  \/ updateUserFind("s1") \/ updateUserUpdate("s1")

SpecLockout == Init /\ [][NextLockout]_vars

(***************************************************************************)
(* Properties                                                              *)
(***************************************************************************)
\* the request was turned away by authenticateToken, before any guard
Unauthenticated(r) == r.error = <<"Authentication", "failed">>

\* the guard of the request has answered: it called next(), or it sent the
\* response of the request
GuardAnswered(r) ==
  \/ r.nexts > 0
  \/ r.pc = "done" /\ ~Unauthenticated(r)

\* the guard of the request called next()
Proceeded(r) == r.nexts > 0

\* the guard of the request sent the response with this status
Answered(r, status) ==
  r.nexts = 0 /\ r.pc = "done" /\ ~Unauthenticated(r) /\ r.status = status

\* the user holds a role row for the role
Assigned(userId, roleId) == BagIn(UserRoleRow(userId, roleId), userRole)

\* the role holds a grant row for the permission of that name
Granted(roleId, permissionName) ==
  \E p \in permission :
    /\ p.name = permissionName
    /\ BagIn(RolePermissionRow(roleId, p.id), rolePermission)

\* the roles assigned to a user
RolesOf(userId) == { r \in role : Assigned(userId, r.id) }

\* C1: a guard ends in exactly one of proceed, 401, 403, 500: 401 exactly
\* when the request has no principal, 403 exactly when the membership query
\* answered false, 500 exactly when the query failed, proceed exactly when it
\* answered true; a failed query is never a 403 nor a proceed, and a false
\* answer never a 500.
C1_GuardOutcomes ==
  \A i \in Slots :
    LET r == req[i]
    IN GuardAnswered(r) =>
         /\ Proceeded(r) \/ \E status \in {401, 403, 500} : Answered(r, status)
         /\ Proceeded(r) => (r.nexts = 1 /\ (r.pc = "done" => r.sent = 1))
         /\ ~Proceeded(r) => r.sent = 1
         /\ Answered(r, 401) <=> (r.user = NoUser)
         /\ Answered(r, 403) <=> (r.q = "false")
         /\ Answered(r, 500) <=> (r.q = "throw")
         /\ Proceeded(r) <=> (r.q = "true")

\* a guard answered 500 for a principal whose query failed
C1_Witness ==
  \E i \in Slots :
    /\ req[i].pc = "done" /\ req[i].user = studentUser
    /\ req[i].q = "throw" /\ req[i].status = 500 /\ req[i].nexts = 0

\* C2: checkPermission(N) lets the request of principal P proceed exactly
\* when, in the store its query reads, some role is assigned to P and granted
\* N; otherwise, the query not failing, it answers 403.
C2_CheckPermission ==
  [][\A i \in Slots :
       (/\ req[i].pc = "query"
        /\ req[i].guard.kind = "checkPermission"
        /\ req'[i] # req[i]
        /\ req'[i].q # "throw")
       => IF \E r \in role : /\ Assigned(req[i].user, r.id)
                             /\ Granted(r.id, req[i].guard.names[1])
            THEN req'[i].pc = "handler" /\ req'[i].nexts = 1 /\ req'[i].sent = 0
            ELSE req'[i].pc = "done" /\ req'[i].status = 403 /\ req'[i].nexts = 0
    ]_vars

\* the student role is granted COURSE_READ and nothing else, the principal
\* holds the student role and nothing else, and asking for STUDENT_MANAGE it
\* was answered 403
C2_Witness ==
  /\ RolesOf(studentUser) = { getRoleByName("student") }
  /\ \A p \in permission :
       Granted(getRoleByName("student").id, p.name) <=> p.name = "COURSE_READ"
  /\ req["s1"].user = studentUser
  /\ req["s1"].guard = [kind |-> "checkPermission", names |-> <<"STUDENT_MANAGE">>]
  /\ req["s1"].pc = "done" /\ req["s1"].status = 403

\* the permissions granted to at least one role assigned to the user
EffectivePermissions(userId) ==
  { p \in permission : \E r \in role : Assigned(userId, r.id) /\ Granted(r.id, p.name) }

\* C3: getUserPermissions(P) returns the permissions granted to at least one
\* role assigned to P, each of them once and no other.
C3_GetUserPermissions ==
  [][\A i \in Slots :
       (/\ req[i].pc = "handler"
        /\ req[i].handler = "getUserPermissions"
        /\ req'[i].status = 200)
       => req'[i].data = SetToBag(EffectivePermissions(req'[i].params.userId))
    ]_vars

\* the list returned for a user with two roles that are both granted
\* COURSE_READ
C3_Witness ==
  \E i \in Slots :
    /\ req[i].handler = "getUserPermissions" /\ req[i].status = 200
    /\ req[i].params.userId = studentUser
    /\ Cardinality(RolesOf(studentUser)) = 2
    /\ \A r \in RolesOf(studentUser) : Granted(r.id, "COURSE_READ")
    /\ req[i].data = SetToBag(EffectivePermissions(studentUser))

\* the names a guard requires that its catalog does not hold
UnknownNames(guard) ==
  { n \in NamesOf(guard.names) :
      IF guard.kind \in {"checkPermission", "checkAnyPermission"}
        THEN getPermissionByName(n) = Null
        ELSE getRoleByName(n) = Null }

\* C4: a guard whose requirement names a role or permission that the catalog
\* does not hold answers 500, not 403.
C4_UnknownNameIsFailure ==
  \A i \in Slots :
    (/\ GuardAnswered(req[i])
     /\ req[i].user # NoUser
     /\ UnknownNames(req[i].guard) # {})
    => Answered(req[i], 500)

\* the user has no row in userRole
NoAssignment(userId) == { ur \in Rows(userRole) : ur.userId = userId } = {}

\* a principal without role assignment has no role and no permission
C5_NoRoleNoPermission ==
  \A userId \in Principals \ {NoUser} :
    NoAssignment(userId) =>
      /\ \A r \in role : ~userHasRole(userId, r.name)
      /\ ~userHasAnyRole(userId, SeedRoles)
      /\ \A n \in SYSTEM_PERMISSIONS : ~userHasPermission(userId, n)
      /\ ~userHasAnyPermission(userId, SeedPermissions)
      /\ getUserPermissions(userId) = EmptyBag

\* the query of a guard answers for a principal without role assignment: the
\* guard sends 403, or 500 when the query itself failed, and does not call
\* next()
C5_GuardDenies ==
  \A i \in Slots :
    (req[i].pc = "query" /\ req'[i] # req[i] /\ NoAssignment(req[i].user))
    => /\ req'[i].pc = "done" /\ req'[i].nexts = 0 /\ req'[i].sent = 1
       /\ req'[i].status # 401
       /\ IF req'[i].q = "throw" THEN req'[i].status = 500
                                 ELSE req'[i].status = 403

\* C5: an identified principal with zero role assignments has no role and an
\* empty list of permissions, and every guard whose query the store answers
\* answers it 403, never 401 and never next().
C5_ZeroRoles == []C5_NoRoleNoPermission /\ [][C5_GuardDenies]_vars

\* the student, all roles removed, was answered 403 by checkAnyRole
C5_Witness ==
  /\ NoAssignment(studentUser)
  /\ req["s1"].user = studentUser
  /\ req["s1"].guard.kind = "checkAnyRole" /\ req["s1"].guard.names # <<>>
  /\ req["s1"].pc = "done" /\ req["s1"].status = 403

\* C6: a request without principal identifier is answered 401
\* 'Authentication required' by its guard, which issues no store query for
\* it; no 401 of a guard follows a query.
C6_NoQueryBefore401 ==
  \A i \in Slots :
    LET r == req[i]
    IN /\ (r.user = NoUser /\ r.pc # "idle" /\ ~Unauthenticated(r)) =>
            /\ r.queries = 0 /\ r.q = "none"
            /\ r.pc \in {"guard", "done"}
            /\ r.pc = "done" =>
                 /\ r.status = 401 /\ r.nexts = 0 /\ r.sent = 1
                 /\ r.error = <<"Authentication", "required">>
       /\ Answered(r, 401) => r.queries = 0

\* checkAnyRole answered 401 to a request without principal, no query issued
C6_Witness ==
  \E i \in Slots :
    /\ req[i].user = NoUser /\ req[i].guard.kind = "checkAnyRole"
    /\ req[i].pc = "done" /\ req[i].status = 401 /\ req[i].queries = 0
    /\ req[i].error = <<"Authentication", "required">>

\* the request is an assignment that found the user already holding the role:
\* at the check of userService, or at the unique key of the create
DuplicateAssign(r) ==
  /\ r.pc = "done"
  /\ r.handler \in {"roleAssign", "userAssign"}
  /\ \/ r.error = ErrAlreadyHas(r.params.roleName)
     \/ r.error = P2002(<<"(userId,roleId)">>)

\* C7: an assignRole issued while the assignment exists is reported, on both
\* assignment paths, as a Conflict (409) that names the role.
C7_DuplicateIsConflict ==
  \A i \in Slots :
    DuplicateAssign(req[i]) =>
      /\ req[i].status = 409
      /\ req[i].params.roleName \in NamesOf(req[i].error)

\* the request is a removal that found no row to remove
RemoveAbsent(r) ==
  /\ r.pc = "done"
  /\ \/ r.handler \in {"roleRemove", "permRemove"} /\ r.count = 0
     \/ /\ r.handler = "userRemove"
        /\ r.error \in {ErrDoesNotHave(r.params.roleName), P2025}

OthersUnchanged(table, newTable, row) ==
  \A x \in (Rows(table) \cup Rows(newTable)) \ {row} :
    CopiesIn(x, newTable) = CopiesIn(x, table)

\* the deleteMany of the role path answers: 200, the assignment is gone, and
\* nothing changes when it was not there
C8_RolePathStep(i) ==
  LET row == UserRoleRow(req[i].params.userId, req[i].found.id)
  IN (/\ req[i].pc = "delete" /\ req[i].handler = "roleRemove"
      /\ req'[i].pc = "done" /\ req'[i].error # StoreDown)
     => /\ req'[i].status = 200
        /\ ~BagIn(row, userRole')
        /\ OthersUnchanged(userRole, userRole', row)
        /\ ~BagIn(row, userRole) => userRole' = userRole
        /\ rolePermission' = rolePermission

\* the deleteMany of revokePermission answers: likewise
C8_RevokeStep(i) ==
  LET row == RolePermissionRow(req[i].params.roleId, req[i].found.id)
  IN (/\ req[i].pc = "delete" /\ req[i].handler = "permRemove"
      /\ req'[i].pc = "done" /\ req'[i].error # StoreDown)
     => /\ req'[i].status = 200
        /\ ~BagIn(row, rolePermission')
        /\ OthersUnchanged(rolePermission, rolePermission', row)
        /\ ~BagIn(row, rolePermission) => rolePermission' = rolePermission
        /\ userRole' = userRole

\* userService.removeRoleFromUser finds the assignment missing, at its check
\* or at its delete: an error status, and nothing changes
C8_UserPathStep(i) ==
  LET row == UserRoleRow(req[i].params.userId, req[i].found.id)
  IN (/\ req[i].pc \in {"exists", "delete"} /\ req[i].handler = "userRemove"
      /\ req'[i] # req[i] /\ req'[i].error # StoreDown
      /\ ~BagIn(row, userRole))
     => /\ req'[i].pc = "done"
        /\ req'[i].status = IF req[i].pc = "exists" THEN 409 ELSE 404
        /\ req[i].pc = "exists" =>
             req'[i].error = ErrDoesNotHave(req[i].params.roleName)
        /\ userRole' = userRole /\ rolePermission' = rolePermission

AllUsers == UserIds \cup (Principals \ {NoUser})

\* the permission is in the list getUserPermissions returns for the user
InUserPermissions(userId, permissionName) ==
  \E p \in DOMAIN getUserPermissions(userId) : p.name = permissionName

\* a grant succeeds: every user assigned the role has the permission
C9_GrantStep(i) ==
  (/\ req[i].pc = "create" /\ req[i].handler = "permAssign"
   /\ req'[i].status = 201)
  => \A userId \in AllUsers :
       Assigned(userId, req[i].params.roleId) =>
         /\ userHasPermission(userId, req[i].params.permissionName)'
         /\ InUserPermissions(userId, req[i].params.permissionName)'

\* a revoke succeeds: a user whose only role is this one has lost the
\* permission, a user with another role granted it keeps it
C9_RevokeStep(i) ==
  (/\ req[i].pc = "delete" /\ req[i].handler = "permRemove"
   /\ req'[i].status = 200)
  => \A userId \in AllUsers :
       /\ { r.id : r \in RolesOf(userId) } = { req[i].params.roleId } =>
            /\ ~userHasPermission(userId, req[i].params.permissionName)'
            /\ ~InUserPermissions(userId, req[i].params.permissionName)'
       /\ (\E r \in RolesOf(userId) :
             /\ r.id # req[i].params.roleId
             /\ Granted(r.id, req[i].params.permissionName)) =>
            /\ userHasPermission(userId, req[i].params.permissionName)'
            /\ InUserPermissions(userId, req[i].params.permissionName)'

\* C9: after grantPermission(R, N) succeeds every principal assigned R has N
\* in its effective permissions and passes the membership test of
\* checkPermission(N); after revokePermission(R, N) succeeds a principal whose
\* only role is R has lost N, and one holding another role granted N keeps it.
C9_GrantRevoke ==
  [][\A i \in Slots : C9_GrantStep(i) /\ C9_RevokeStep(i)]_vars

\* COURSE_READ was revoked from the student role while the student also held
\* the admin role: the student still has COURSE_READ
C9_Witness ==
  \E i \in Slots :
    /\ req[i].handler = "permRemove" /\ req[i].status = 200 /\ req[i].count = 1
    /\ req[i].params.permissionName = "COURSE_READ"
    /\ ~Granted(req[i].params.roleId, "COURSE_READ")
    /\ Cardinality(RolesOf(studentUser)) = 2
    /\ userHasPermission(studentUser, "COURSE_READ")

\* C10: the store holds at most one role assignment for each pair of user and
\* role, whatever the interleaving of the assign and remove requests.
C10_OneAssignmentPerPair ==
  \A row \in DOMAIN userRole : userRole[row] = 1

\* two assignments of the same pair through userService both passed the check
\* for an existing assignment; one created the row, the create of the other
\* was refused by the unique key
C10_Witness ==
  \E i, j \in Slots :
    /\ i # j
    /\ req[i].handler = "userAssign" /\ req[j].handler = "userAssign"
    /\ req[i].params = req[j].params
    /\ req[i].count = 1
    /\ req[j].pc = "done" /\ req[j].error = P2002(<<"(userId,roleId)">>)
    /\ C10_OneAssignmentPerPair

\* no pair of role and permission is granted twice
C11_OneGrantPerPair ==
  \A row \in DOMAIN rolePermission : rolePermission[row] = 1

\* the create of a grant that exists answers an error and changes no grant
C11_DuplicateGrantStep(i) ==
  LET row == RolePermissionRow(req[i].params.roleId, req[i].found.id)
  IN (/\ req[i].pc = "create" /\ req[i].handler = "permAssign"
      /\ req'[i] # req[i]
      /\ BagIn(row, rolePermission))
     => /\ req'[i].pc = "done"
        /\ req'[i].status = 400
        /\ req'[i].error # <<>>
        /\ rolePermission' = rolePermission

\* C11: the store holds at most one grant for each pair of role and
\* permission in every reachable state, and grantPermission issued while the
\* grant exists fails with an error and leaves the grants unchanged.
C11_UniqueGrant ==
  /\ []C11_OneGrantPerPair
  /\ [][\A i \in Slots : C11_DuplicateGrantStep(i)]_vars

\* a grant of a permission the role already had was refused by the unique key
C11_Witness ==
  \E i \in Slots :
    /\ req[i].handler = "permAssign" /\ req[i].pc = "done"
    /\ req[i].error = P2002(<<"(roleId,permissionId)">>)
    /\ req[i].status = 400
    /\ Granted(req[i].params.roleId, req[i].params.permissionName)

\* role names a requirement can carry: the catalog, and one outside it
AnyRoleName == NamesOf(SeedRoles) \cup {"guest"}

\* C12: on one store state, userHasAnyRole(P, {R1, R2}) is true exactly when
\* userHasRole(P, R1) or userHasRole(P, R2) is, and userHasAnyPermission(P,
\* {N1, N2}) exactly when userHasPermission(P, N1) or userHasPermission(P, N2)
\* is, for every principal and every pair of names.
C12_AnyOfLaw ==
  \A userId \in AllUsers :
    /\ \A R1, R2 \in AnyRoleName :
         userHasAnyRole(userId, <<R1, R2>>)
           <=> (userHasRole(userId, R1) \/ userHasRole(userId, R2))
    /\ \A N1, N2 \in SYSTEM_PERMISSIONS :
         userHasAnyPermission(userId, <<N1, N2>>)
           <=> (userHasPermission(userId, N1) \/ userHasPermission(userId, N2))

\* COURSE_READ has been revoked from the student role: the student, holding
\* that role only, has neither COURSE_DELETE nor COURSE_READ, and holds one
\* of admin and student
C12_Witness ==
  /\ \E i \in Slots :
       /\ req[i].handler = "permRemove" /\ req[i].status = 200
       /\ req[i].count = 1
  /\ ~Granted(RoleIdOf("student"), "COURSE_READ")
  /\ ~userHasAnyPermission(studentUser, <<"COURSE_DELETE", "COURSE_READ">>)
  /\ userHasAnyPermission(adminUser, <<"COURSE_DELETE", "COURSE_READ">>)
  /\ userHasAnyRole(studentUser, <<"admin", "student">>)
  /\ ~userHasRole(studentUser, "admin")

\* the principal of the request holds one of the roles, or one of the
\* permissions, its any-of guard lists
HoldsOneOf(r) ==
  \E k \in DOMAIN r.guard.names :
    \E x \in role :
      /\ Assigned(r.user, x.id)
      /\ IF r.guard.kind = "checkAnyRole"
           THEN x.name = r.guard.names[k]
           ELSE Granted(x.id, r.guard.names[k])

\* C13: an any-of guard (checkAnyRole, checkAnyPermission) lets the request
\* proceed exactly when the principal holds at least one of the listed roles
\* or permissions, whichever it is, and answers 403 exactly when it holds
\* none, which is every call with an empty list.
C13_AnyOfGuard ==
  [][\A i \in Slots :
       (/\ req[i].pc = "query"
        /\ req[i].guard.kind \in {"checkAnyRole", "checkAnyPermission"}
        /\ req'[i] # req[i]
        /\ req'[i].q # "throw")
       => /\ IF HoldsOneOf(req[i])
               THEN /\ req'[i].pc = "handler" /\ req'[i].nexts = 1
                    /\ req'[i].sent = 0
               ELSE /\ req'[i].pc = "done" /\ req'[i].status = 403
                    /\ req'[i].nexts = 0
          /\ req[i].guard.names = <<>> => req'[i].status = 403
    ]_vars

\* the teacher, holding the teacher role only, granted COURSE_UPDATE and not
\* COURSE_DELETE, passed the guard asking for one of COURSE_DELETE and
\* COURSE_UPDATE
C13_Witness ==
  \E i \in Slots :
    /\ req[i].user = teacherUser
    /\ req[i].guard = [kind |-> "checkAnyPermission",
                       names |-> <<"COURSE_DELETE", "COURSE_UPDATE">>]
    /\ req[i].nexts = 1 /\ req[i].q = "true"
    /\ { x.name : x \in RolesOf(teacherUser) } = {"teacher"}
    /\ Granted(RoleIdOf("teacher"), "COURSE_UPDATE")
    /\ ~Granted(RoleIdOf("teacher"), "COURSE_DELETE")

\* the request is at the await of its handler that looks the role up by name
AtRoleLookup(r) ==
  \/ r.handler \in {"roleAssign", "roleRemove"} /\ r.pc = "handler"
  \/ r.handler \in {"userAssign", "userRemove"} /\ r.pc = "role"

\* the request is past the lookup of its role, at or after its write
PastRoleLookup(r) ==
  /\ r.handler \in {"roleAssign", "roleRemove", "userAssign", "userRemove"}
  /\ r.pc \in {"exists", "create", "delete", "get"} \/ r.count >= 0

\* the lookup answers for a name no role carries: the request ends with an
\* error naming the role, 400 from roleController and 404 from
\* userController, and no assignment changes
C14_UnknownRoleStep(i) ==
  (/\ AtRoleLookup(req[i])
   /\ req'[i] # req[i]
   /\ req'[i].error # StoreDown
   /\ getRoleByName(req'[i].params.roleName) = Null)
  => /\ req'[i].pc = "done"
     /\ req'[i].status =
          IF req[i].handler \in {"roleAssign", "roleRemove"} THEN 400 ELSE 404
     /\ includes(req'[i].error, <<"not", "found">>)
     /\ req'[i].params.roleName \in NamesOf(req'[i].error)
     /\ req'[i].count = -1
     /\ userRole' = userRole

\* a request reaches its write only with the role its name was found to be
C14_LookupBeforeWrite ==
  \A i \in Slots :
    PastRoleLookup(req[i]) =>
      /\ req[i].found \in role
      /\ req[i].found.name = req[i].params.roleName

\* C14: assignRole and removeRole with a role name outside the role catalog
\* fail with a not-found error that names the role and leave the role
\* assignments unchanged, the name being looked up before any write.
C14_UnknownRole ==
  /\ []C14_LookupBeforeWrite
  /\ [][\A i \in Slots : C14_UnknownRoleStep(i)]_vars

\* an assignment of the role guest, which no role row carries, ended 400
\* with the message naming guest, while the store kept the seeded assignments
C14_Witness ==
  \E i \in Slots :
    /\ req[i].handler = "roleAssign" /\ req[i].pc = "done"
    /\ req[i].params.roleName = "guest"
    /\ req[i].error = ErrRoleNotFound("guest")
    /\ req[i].status = 400 /\ req[i].count = -1
    /\ userRole = SeedUserRole

\* the lookup answers for a name no permission carries: 400 with an error
\* naming the permission, and no grant changes
C15_UnknownPermissionStep(i) ==
  (/\ req[i].pc = "handler"
   /\ req[i].handler \in {"permAssign", "permRemove"}
   /\ req'[i] # req[i]
   /\ req'[i].error # StoreDown
   /\ getPermissionByName(req'[i].params.permissionName) = Null)
  => /\ req'[i].pc = "done"
     /\ req'[i].status = 400
     /\ includes(req'[i].error, <<"not", "found">>)
     /\ req'[i].params.permissionName \in NamesOf(req'[i].error)
     /\ req'[i].count = -1
     /\ rolePermission' = rolePermission

\* the deleteMany of a revoke answers where the role has no such grant:
\* success, and no grant changes
C15_AbsentGrantStep(i) ==
  (/\ req[i].pc = "delete" /\ req[i].handler = "permRemove"
   /\ req'[i] # req[i]
   /\ req'[i].error # StoreDown
   /\ ~Granted(req[i].params.roleId, req[i].params.permissionName))
  => /\ req'[i].pc = "done"
     /\ req'[i].status = 200 /\ req'[i].error = <<>>
     /\ req'[i].count = 0
     /\ rolePermission' = rolePermission

\* C15: grantPermission and revokePermission with a permission name outside
\* the permission catalog fail with a not-found error that names the
\* permission and leave the grants unchanged; revokePermission with a known
\* name and no existing grant succeeds and changes nothing.
C15_UnknownPermission ==
  [][\A i \in Slots :
       C15_UnknownPermissionStep(i) /\ C15_AbsentGrantStep(i)]_vars

\* a grant of ATTENDANCE_MANAGE, which no permission row carries, ended 400
\* naming it, and a revoke of COURSE_READ from a role without it ended 200
C15_Witness ==
  \E i, j \in Slots :
    /\ req[i].handler = "permAssign" /\ req[i].pc = "done"
    /\ req[i].params.permissionName = "ATTENDANCE_MANAGE"
    /\ req[i].status = 400
    /\ "ATTENDANCE_MANAGE" \in NamesOf(req[i].error)
    /\ req[j].handler = "permRemove" /\ req[j].pc = "done"
    /\ req[j].params.permissionName = "COURSE_READ"
    /\ req[j].count = 0 /\ req[j].status = 200

\* what a membership query can observe of the admin role of a user: the
\* assignment is one whole row between a user and a role that exist, or no
\* row, and the role and permission queries agree on it
WholeOrAbsent(userId) ==
  LET row == UserRoleRow(userId, RoleIdOf("admin"))
  IN /\ CopiesIn(row, userRole) \in {0, 1}
     /\ \A ur \in Rows(userRole) :
          ur.userId \in UserIds /\ \E r \in role : r.id = ur.roleId
     /\ userHasRole(userId, "admin") <=> BagIn(row, userRole)
     /\ userHasAnyRole(userId, <<"admin">>) <=> BagIn(row, userRole)
     /\ BagIn(row, userRole) =>
          \A p \in permission :
            Granted(row.roleId, p.name) => userHasPermission(userId, p.name)

\* a write of an assign or remove of the admin role changes the one row of
\* its user and the admin role, to present or to absent
C16_WriteStep(i) ==
  LET row == UserRoleRow(req[i].params.userId, req[i].found.id)
  IN (/\ req[i].handler \in {"roleAssign", "roleRemove", "userAssign", "userRemove"}
      /\ req[i].pc \in {"create", "delete"}
      /\ req[i].params.roleName = "admin"
      /\ req'[i] # req[i])
     => /\ OthersUnchanged(userRole, userRole', row)
        /\ rolePermission' = rolePermission
        /\ CopiesIn(row, userRole') \in {0, 1}
        /\ req'[i].count = 1 =>
             CopiesIn(row, userRole') = IF req[i].pc = "create" THEN 1 ELSE 0
        /\ req'[i].count # 1 => userRole' = userRole

\* C16: when assignRole(P, admin) and removeRole(P, admin) run concurrently,
\* every interleaving of their reads and writes ends with P assigned or P not
\* assigned and nothing else changed, as running them one after the other
\* does, and a check at any point in between observes the assignment wholly
\* present or wholly absent.
C16_AssignRemoveRace ==
  /\ [](\A userId \in TargetUsers : WholeOrAbsent(userId))
  /\ [][\A i \in Slots : C16_WriteStep(i)]_vars

\* an assignment of admin to the student has written its row and is still
\* running while a removal of the same assignment is at its delete
C16_Witness ==
  \E i, j \in Slots :
    /\ req[i].handler = "userAssign" /\ req[i].pc = "get" /\ req[i].count = 1
    /\ req[j].handler \in {"roleRemove", "userRemove"} /\ req[j].pc = "delete"
    /\ req[i].params.roleName = "admin" /\ req[j].params.roleName = "admin"
    /\ req[i].params.userId = studentUser /\ req[j].params.userId = studentUser
    /\ userHasRole(studentUser, "admin")

\* C17: a guard changes nothing in the store: over every step of a guard,
\* whatever its outcome (proceed, 401, 403, 500), the roles, permissions,
\* role assignments and role-permission grants are the same after as before.
C17_GuardFrame ==
  [][\A i \in Slots :
       (req[i].pc \in {"guard", "query"} /\ req'[i] # req[i])
       => /\ user' = user /\ role' = role /\ permission' = permission
          /\ userRole' = userRole /\ rolePermission' = rolePermission
    ]_vars

\* checkRole(admin) answered the student 403 and the student still holds
\* the assignments of the seed
C17_Witness ==
  \E i \in Slots :
    /\ req[i].guard.kind = "checkRole" /\ req[i].user = studentUser
    /\ Answered(req[i], 403) /\ req[i].q = "false"
    /\ RolesOf(studentUser) = { getRoleByName("student") }

\* the step adds rows to the assignments or to the grants and removes none
C18_AddsOnly ==
  /\ \A x \in Rows(userRole) : CopiesIn(x, userRole') >= CopiesIn(x, userRole)
  /\ \A x \in Rows(rolePermission) :
       CopiesIn(x, rolePermission') >= CopiesIn(x, rolePermission)
  /\ user' = user /\ role' = role /\ permission' = permission
  /\ <<userRole, rolePermission>>' # <<userRole, rolePermission>>

\* C18: the model is grant-only: whatever a guard's membership query
\* (userHasRole, userHasAnyRole, userHasPermission, userHasAnyPermission)
\* allows a principal in a store state, it allows in the state obtained by
\* adding a role assignment, of this principal or another, or a grant.
C18_GrantOnly ==
  [][C18_AddsOnly =>
       \A userId \in AllUsers :
         /\ \A R1, R2 \in AnyRoleName :
              /\ userHasRole(userId, R1) => userHasRole(userId, R1)'
              /\ userHasAnyRole(userId, <<R1, R2>>)
                   => userHasAnyRole(userId, <<R1, R2>>)'
         /\ \A N1, N2 \in SYSTEM_PERMISSIONS :
              /\ userHasPermission(userId, N1) => userHasPermission(userId, N1)'
              /\ userHasAnyPermission(userId, <<N1, N2>>)
                   => userHasAnyPermission(userId, <<N1, N2>>)'
    ]_vars

\* the student was assigned admin on top of student: it still has the student
\* role and COURSE_READ, and the admin and the teacher still have theirs
C18_Witness ==
  \E i \in Slots :
    /\ req[i].handler = "roleAssign" /\ req[i].status = 201
    /\ req[i].params.userId = studentUser /\ req[i].params.roleName = "admin"
    /\ userHasRole(studentUser, "student") /\ userHasRole(studentUser, "admin")
    /\ userHasPermission(studentUser, "COURSE_READ")
    /\ userHasRole(adminUser, "admin")
    /\ userHasAnyPermission(teacherUser, <<"COURSE_DELETE", "COURSE_UPDATE">>)

\* the request is a mutation that completed, and the last one of its slot
Completed(r, handler, status) ==
  r.pc = "done" /\ r.handler = handler /\ r.status = status

\* the query of checkPermission of slot i answers while slot j shows a
\* completed removal or revoke: the principal is not allowed through the
\* role or grant that was removed
C19_NoStaleAllow(i, j) ==
  LET P == req[i].user
      N == req[i].guard.names[1]
      others(R) == { x \in RolesOf(P) : x.id # R }
      gone ==
        \/ /\ Completed(req[j], "permRemove", 200)
           /\ req[j].params.permissionName = N
           /\ \A x \in others(req[j].params.roleId) : ~Granted(x.id, N)
        \/ /\ Completed(req[j], "roleRemove", 200)
           /\ req[j].params.userId = P
           /\ \A x \in others(req[j].found.id) : ~Granted(x.id, N)
  IN gone => req'[i].pc = "done" /\ req'[i].status = 403 /\ req'[i].nexts = 0

\* the same while slot j shows a completed grant or assignment: the
\* principal is not denied for lack of it
C19_NoStaleDeny(i, j) ==
  LET P == req[i].user
      N == req[i].guard.names[1]
      there ==
        \/ /\ Completed(req[j], "permAssign", 201)
           /\ req[j].params.permissionName = N
           /\ Assigned(P, req[j].params.roleId)
        \/ /\ Completed(req[j], "roleAssign", 201)
           /\ req[j].params.userId = P
           /\ Granted(req[j].found.id, N)
  IN there => req'[i].pc = "handler" /\ req'[i].nexts = 1

\* C19: no decision is served from remembered state: a check of permission
\* N made after a removeRole or revokePermission completed that took the
\* principal's last path to N is not allowed, and a check made after a
\* completed assignRole or grantPermission is not denied for lack of it.
C19_NoStaleDecision ==
  [][\A i, j \in Slots :
       (/\ i # j
        /\ req[i].pc = "query"
        /\ req[i].guard.kind = "checkPermission"
        /\ req'[i] # req[i]
        /\ req'[i].q # "throw")
       => C19_NoStaleAllow(i, j) /\ C19_NoStaleDeny(i, j)
    ]_vars

\* COURSE_READ was revoked from the student role and the student, holding
\* that role only, was then refused COURSE_READ
C19_Witness ==
  \E i, j \in Slots :
    /\ Completed(req[j], "permRemove", 200) /\ req[j].count = 1
    /\ req[j].params.permissionName = "COURSE_READ"
    /\ req[i].user = studentUser
    /\ req[i].guard = [kind |-> "checkPermission", names |-> <<"COURSE_READ">>]
    /\ Answered(req[i], 403) /\ req[i].q = "false"
    /\ { x.name : x \in RolesOf(studentUser) } = {"student"}

\* the operations that answer whether a user has a role or a permission
C20_MembershipOperations ==
  { "roleService.userHasRole", "roleService.userHasAnyRole",
    "permissionService.userHasPermission",
    "permissionService.userHasAnyPermission", "userService.userHasRole" }

\* the user holds one of the roles of the list, or a role granted one of the
\* permissions of the list
C20_HasOneOf(operation, userId, names) ==
  \E k \in DOMAIN names :
    \E x \in role :
      /\ Assigned(userId, x.id)
      /\ IF operation \in {"permissionService.userHasPermission",
                           "permissionService.userHasAnyPermission"}
           THEN Granted(x.id, names[k])
           ELSE x.name = names[k]

\* C20: no membership query signals a user without the role or permission by
\* throwing: for every user id, one matching no user row included, each of
\* roleService.userHasRole, userService.userHasRole,
\* permissionService.userHasPermission and the any-of variants returns false
\* when the user lacks it, true when it has it, and throws only when the
\* store fails.
C20_NoThrowForDeny ==
  [][\A i \in Slots :
       (/\ req'[i] # req[i]
        /\ req'[i].handler \in C20_MembershipOperations)
       => /\ req'[i].q = "throw" => req'[i].error = StoreDown
          /\ req'[i].error # StoreDown =>
               req'[i].q =
                 IF C20_HasOneOf(req'[i].handler, req'[i].params.userId,
                             req'[i].guard.names)
                   THEN "true" ELSE "false"
    ]_vars

\* the text is a message of the store itself: a constraint violation, a
\* missing record, an unreachable server
C21_StoreErrorText(error) ==
  \/ error = StoreDown
  \/ error = P2025
  \/ includes(error, <<"constraint", "failed">>)

\* C21: no response carries the error text of the store: the 500 of a guard
\* has one of the two fixed messages, and the assign, remove, grant and
\* revoke endpoints answer a fault of the store (a unique-constraint or
\* foreign-key violation of the create, say) with a generic message.
C21_NoRawStoreError ==
  \A i \in Slots :
    req[i].pc = "done" =>
      /\ ~C21_StoreErrorText(req[i].error)
      /\ req[i].q = "throw" =>
           req[i].error \in { <<"Error", "checking", "user", "roles">>,
                              <<"Error", "checking", "user", "permissions">> }

\* the guard of the request was checkPermission of this permission, and its
\* query found the caller holding it
C22_PassedGuard(r, permissionName) ==
  /\ r.guard = [kind |-> "checkPermission", names |-> <<permissionName>>]
  /\ r.q = "true" /\ r.nexts = 1

\* C22: role assignments and grants change only through the guarded
\* operations: every step that creates or removes one belongs to a request
\* whose guard found the caller holding ROLE_MANAGE, or is the creation of a
\* user, behind a guard that found USER_CREATE, adding the one assignment of
\* the new user to student; a request whose caller lacked the permission at
\* its guard changes neither relation.
C22_GuardedMutation ==
  [][(userRole' # userRole \/ rolePermission' # rolePermission) =>
       \E i \in Slots :
         /\ req'[i] # req[i]
         /\ IF req[i].handler = "createUser"
              THEN /\ C22_PassedGuard(req[i], "USER_CREATE")
                   /\ req[i].params.userId \notin UserIds
                   /\ userRole' = Create(userRole,
                        UserRoleRow(req[i].params.userId, RoleIdOf("student")))
                   /\ rolePermission' = rolePermission
              ELSE C22_PassedGuard(req[i], "ROLE_MANAGE")
    ]_vars

\* what a guard decides for a requirement, from the role assignments of the
\* principal and the grants, roles and permissions alone
C23_Verdict(requirement, assignments, grants, roles, permissions) ==
  \E k \in DOMAIN requirement.names, ur \in assignments :
    IF requirement.kind \in {"checkRole", "checkAnyRole"}
      THEN \E r \in roles : r.id = ur.roleId /\ r.name = requirement.names[k]
      ELSE \E rp \in grants, p \in permissions :
             /\ rp.roleId = ur.roleId /\ rp.permissionId = p.id
             /\ p.name = requirement.names[k]

\* C23: a 403 decision is a function of the principal, the requirement and
\* the current assignments and grants only: whenever the query of a guard
\* answers, the request proceeds or is answered 403 as the requirement and the
\* principal's own assignments with the grants of the store at that step
\* say, whatever the slot served before, whatever other principals are
\* assigned and whatever email the token carries.
C23_DecisionFunction ==
  [][\A i \in Slots :
       (/\ req[i].pc = "query"
        /\ req'[i] # req[i]
        /\ req'[i].q # "throw")
       => LET own == { ur \in Rows(userRole) : ur.userId = req[i].user }
              allowed == C23_Verdict(req[i].guard, own, Rows(rolePermission),
                                     role, permission)
          IN /\ req'[i].q = IF allowed THEN "true" ELSE "false"
             /\ req'[i].status = IF allowed THEN 0 ELSE 403
             /\ req'[i].nexts = IF allowed THEN 1 ELSE 0
             /\ req'[i].sent = IF allowed THEN 0 ELSE 1
    ]_vars

\* the student, under the token carrying its former email, was refused the
\* roles admin and teacher while the admin and the teacher hold them
C23_Witness ==
  /\ req["s1"].user = studentUser /\ req["s1"].email = "former"
  /\ req["s1"].guard = [kind |-> "checkAnyRole", names |-> <<"admin", "teacher">>]
  /\ Answered(req["s1"], 403) /\ req["s1"].q = "false"
  /\ userHasRole(adminUser, "admin") /\ userHasRole(teacherUser, "teacher")

\* C24: every user-creation operation leaves the new principal with exactly
\* one role assignment, to student: the user made by userService.createUser
\* and the user made by authService.register each hold one assignment row,
\* that of the student role, and so the permissions granted to student and
\* no other.
C24_DefaultStudent ==
  \A id \in { CreatedUser, RegisteredUser } :
    id \in UserIds =>
      /\ { ur \in Rows(userRole) : ur.userId = id }
           = { UserRoleRow(id, RoleIdOf("student")) }
      /\ CopiesIn(UserRoleRow(id, RoleIdOf("student")), userRole) = 1
      /\ \A p \in permission :
           userHasPermission(id, p.name) <=> Granted(RoleIdOf("student"), p.name)

\* C25: of two concurrent assignRole(P, R) requests of the user path for an
\* unassigned pair, one succeeds and the other is reported as the duplicate
\* assignment: the request that comes to its create after the other created
\* the row, the store being up, is answered 409 User already has the role,
\* and never 500.
C25_RaceLoserConflict ==
  [][\A i, j \in Slots :
       (/\ i # j
        /\ req[i].handler = "userAssign" /\ req[j].handler = "userAssign"
        /\ req[i].pc = "create"
        /\ req[j].pc \in {"get", "done"} /\ req[j].count = 1
        /\ req[j].params.userId = req[i].params.userId
        /\ req[j].found = req[i].found
        /\ Assigned(req[i].params.userId, req[i].found.id)
        /\ req'[i] # req[i]
        /\ req'[i].error # StoreDown)
       => /\ req'[i].status = 409
          /\ req'[i].error = ErrAlreadyHas(req[i].params.roleName)
    ]_vars

\* the step of a request of the role path or of the user path, for an
\* existing user and an existing role and with the store up, follows the law
\* of its operation: it writes no row but its own, a finished assign leaves
\* the pair assigned and a finished remove leaves it unassigned
C26_Law(i) ==
  LET r == req'[i]
      row == UserRoleRow(r.params.userId, RoleIdOf(r.params.roleName))
      assign == r.handler \in {"roleAssign", "userAssign"}
  IN /\ \A x \in Rows(userRole) \cup Rows(userRole') :
          x # row => CopiesIn(x, userRole') = CopiesIn(x, userRole)
     /\ CopiesIn(row, userRole') <= 1
     /\ r.pc = "done" => (BagIn(row, userRole') <=> assign)

\* the outcome the two paths report when the request finishes: both succeed
\* on an assign that creates and on a remove that deletes; the duplicate
\* assign is an error on both, 400 on the role path and 409 on the user path;
\* the remove of an absent assignment succeeds on the role path and is the
\* error User does not have the role on the user path
C26_Outcome(i) ==
  LET r == req'[i]
      row == UserRoleRow(r.params.userId, RoleIdOf(r.params.roleName))
      success == r.status \in {200, 201}
  IN r.pc = "done" =>
       CASE r.handler = "roleAssign" ->
              IF r.count = 1 THEN success
              ELSE r.status = 400 /\ BagIn(row, userRole) /\ userRole' = userRole
         [] r.handler = "userAssign" ->
              IF r.count = 1 THEN success
              ELSE /\ r.status = 409 /\ r.error = ErrAlreadyHas(r.params.roleName)
                   /\ BagIn(row, userRole) /\ userRole' = userRole
         [] r.handler = "roleRemove" ->
              success /\ r.count = CopiesIn(row, userRole)
         [] r.handler = "userRemove" ->
              IF r.count = 1 THEN success
              ELSE /\ r.status = 409 /\ r.error = ErrDoesNotHave(r.params.roleName)
                   /\ ~BagIn(row, userRole) /\ userRole' = userRole

C27_Deleted(userId) == \E u \in user : u.id = userId /\ ~u.active

\* C27: deleteUser, a soft delete, leaves every role assignment as it was,
\* and no guard reads the active flag: a step of deleteUser changes neither
\* assignments nor grants, and a guard asked by a deleted principal under a
\* token still valid lets it proceed exactly when its assignments and the
\* grants meet the requirement, as for a principal that is active.
C27_SoftDelete ==
  [][\A i \in Slots :
       /\ (req[i].handler = "deleteUser" /\ req'[i] # req[i]
           /\ req[i].pc \in {"handler", "update"})
          => userRole' = userRole /\ rolePermission' = rolePermission
       /\ (/\ req[i].pc = "query" /\ req'[i] # req[i]
           /\ req'[i].q # "throw"
           /\ C27_Deleted(req[i].user))
          => LET held == \E x \in RolesOf(req[i].user) :
                           IF req[i].guard.kind = "checkRole"
                             THEN x.name = req[i].guard.names[1]
                             ELSE Granted(x.id, req[i].guard.names[1])
             IN IF held
                  THEN req'[i].pc = "handler" /\ req'[i].nexts = 1
                  ELSE req'[i].status = 403 /\ req'[i].nexts = 0
    ]_vars

\* the student was deleted by the admin, holds the student role as before
\* and, under its token, passed checkPermission(COURSE_READ)
C27_Witness ==
  /\ C27_Deleted(studentUser)
  /\ Completed(req["s2"], "deleteUser", 200)
  /\ req["s2"].params.userId = studentUser
  /\ RolesOf(studentUser) = { getRoleByName("student") }
  /\ req["s1"].user = studentUser
  /\ req["s1"].guard = [kind |-> "checkPermission", names |-> <<"COURSE_READ">>]
  /\ req["s1"].q = "true" /\ req["s1"].nexts = 1

\* no user holds ROLE_MANAGE
C28_NoRoleManager == \A id \in UserIds : ~userHasPermission(id, "ROLE_MANAGE")

\* C28: nothing protects the last holder of ROLE_MANAGE, and once no
\* principal holds it the assignments and grants can never change again
\* through the API: in every state where no principal holds ROLE_MANAGE,
\* the guard of an assign, remove, grant or revoke request whose query
\* answers sends 403, and no step changes the role assignments or the
\* grants.
C28_Lockout ==
  [][C28_NoRoleManager =>
       /\ \A i \in Slots :
            (/\ req[i].pc = "query" /\ req'[i] # req[i]
             /\ req[i].guard.names = <<"ROLE_MANAGE">>
             /\ req'[i].q # "throw")
            => req'[i].status = 403 /\ req'[i].nexts = 0
       /\ userRole' = userRole
       /\ rolePermission' = rolePermission
    ]_vars

\* C29: for every request a guard either calls next() once and sends no
\* response, or sends one response, 401, 403 or 500, and never calls next():
\* a step of a guard issues its query, or proceeds on the answer true, or
\* responds; and a handler behind a guard takes a step only in a request
\* whose membership query returned true, whose guard called next() once and
\* sent nothing.
C29_NextOrRespond ==
  [][\A i \in Slots :
       /\ (req[i].pc \in {"guard", "query"} /\ req'[i] # req[i])
          => \/ /\ req[i].pc = "guard" /\ req'[i].pc = "query"
                /\ req'[i].nexts = 0 /\ req'[i].sent = 0
             \/ /\ req'[i].pc = "handler" /\ req'[i].q = "true"
                /\ req'[i].nexts = 1 /\ req'[i].sent = 0
             \/ /\ req'[i].pc = "done" /\ req'[i].q # "true"
                /\ req'[i].nexts = 0 /\ req'[i].sent = 1
                /\ req'[i].status \in {401, 403, 500}
       /\ (req[i].pc \notin {"idle", "done", "guard", "query"} /\ req'[i] # req[i])
          => /\ req[i].q = "true" /\ req[i].nexts = 1 /\ req[i].sent = 0
             /\ req'[i].nexts = 1 /\ req'[i].sent <= 1
    ]_vars

\* the handler behind checkAnyPermission ran and answered, after the guard
\* of the teacher's request called next() once
C29_Witness ==
  \E i \in Slots :
    /\ req[i].user = teacherUser
    /\ req[i].guard.kind = "checkAnyPermission"
    /\ Completed(req[i], "protected", 200)
    /\ req[i].q = "true" /\ req[i].nexts = 1 /\ req[i].sent = 1

====
